---------------------------- MODULE Spec2Model ----------------------------
(***************************************************************************)
(* Model of the parlay odds tool.                                          *)
(*                                                                         *)
(*  - Spec      : the session state (legs, preview-exclusion set, stake,   *)
(*                book total odds) and its handlers, for the context store *)
(*                (parlayStore.tsx) and for the single-file App variant.   *)
(*  - SpecOdds  : the pure odds functions of utils/odds.ts applied to      *)
(*                inputs drawn from OddsDomain.                            *)
(*  - SpecParlay: parseLegs, parseStake, computeParlayMetrics and          *)
(*                computePricingScaleFromBookTotal of lib/parlayMath.ts    *)
(*                and the App's parlayMetrics / fairParlayMetrics /        *)
(*                evMetrics memos, applied to legs, a stake string and a   *)
(*                quoted decimal drawn from bounded sets, and the sort of  *)
(*                the ShareCard.                                           *)
(*                                                                         *)
(* Numbers.  A JavaScript number is modelled as the IEEE 754 double it is: *)
(* NaN, +Infinity, -Infinity, or a finite value  s * m * 2^q  with a sign  *)
(* s, a mantissa m below 2^53 and an exponent q from -1074 to 971; the two *)
(* zeros have m = 0.  Sums, products, quotients, Math.round and the       *)
(* reading of a numeric string are computed exactly on naturals of any     *)
(* size and then rounded once to the nearest double, ties to the even      *)
(* mantissa, as the hardware does: a result above the largest double       *)
(* 1.7976931348623157e308 is an infinity, one below the normal range is a  *)
(* multiple of 2^-1074.  So two values are equal in the model exactly when *)
(* the doubles are, and an identity that holds for the exact values may    *)
(* fail by a rounding error (0.6 is not 1 / (1 + 100/150)).                *)
(***************************************************************************)
EXTENDS Integers, Sequences, FiniteSets, TLC

VARIABLES
    variant,            \* "store": parlayStore.tsx; "app": the single-file App
    root,               \* "rendered": first render done, effects pending;
                        \* "mounted": the mount effects have run;
                        \* "crashed": React has unmounted the tree after an
                        \* error thrown while rendering
    restored,           \* history: the legs were taken from localStorage
    legs,               \* Leg[] (useState)
    previewRemovedIds,  \* Set<number> (store only)
    stake,              \* string
    bookTotalOdds,      \* string (store only)
    nEdits,             \* number of text/field edits made so far (bounded)
    everIds,            \* history: every id that was ever in the list
    last,               \* history: the last handler run, its id argument
                        \* (for updateLeg its field and value too), and
                        \* the length of the list before it ran
    yourOdds, oppOdds,  \* SpecOdds: the inputs
    phase,              \* SpecOdds: "input" | "converted" | "analyzed"
    decimalOut, probOut,\* SpecOdds: americanToDecimal / americanToImpliedProb
    market, marketSwap, \* SpecOdds: analyzeTwoSidedMarket(your, opp) / (opp, your)
    decimalIn,          \* SpecOdds: the decimal given to decimalToAmerican
    americanOut,        \* SpecOdds: decimalToAmerican(decimalIn)
    americanBack,       \* SpecOdds: decimalToAmerican(americanToDecimal(yourOdds))
    heap,               \* SpecParlay: the arrays and objects allocated so far
    legsAt,             \* SpecParlay: the address of the Leg[] given to
                        \* parseLegs and to the ShareCard
    inStake,            \* SpecParlay: the stake string
    inQuoted,           \* SpecParlay: the quoted total decimal (a number)
    step,               \* SpecParlay: "input" | "parsed" | "priced" | "scaled" |
                        \* "rendered" | "sorted"
    parsedAt,           \* SpecParlay: what parseLegs returned: the addresses of
                        \* parsedLegs and validLegs, and allValid
    parsedStake,        \* SpecParlay: parseStake(inStake)
    metrics,            \* SpecParlay: computeParlayMetrics(Number(inStake), validLegs)
    metricsPerm,        \* SpecParlay: the same for every reordering of validLegs
    scale,              \* SpecParlay: computePricingScaleFromBookTotal(validLegs, inQuoted)
    scalePerm,          \* SpecParlay: the same for every reordering of validLegs
    parlayMetrics,      \* SpecParlay: the App's parlayMetrics memo
    fairParlayMetrics,  \* SpecParlay: the App's fairParlayMetrics memo
    evMetrics,          \* SpecParlay: the App's evMetrics memo
    sortedAt,           \* SpecParlay: the address of the ShareCard's sortedLegs
    includeScaleOnSlip, \* AnalysisPanel: useState of the "Include scale" box
    includeKeyOnSlip    \* AnalysisPanel: useState of the "Include key" box

storeVars == <<variant, root, restored, legs, previewRemovedIds, stake,
               bookTotalOdds, nEdits, everIds, last>>
oddsVars  == <<yourOdds, oppOdds, phase, decimalOut, probOut, market, marketSwap,
               decimalIn, americanOut, americanBack>>
parlayVars == <<heap, legsAt, inStake, inQuoted, step, parsedAt, parsedStake,
                metrics, metricsPerm, scale, scalePerm, parlayMetrics,
                fairParlayMetrics, evMetrics, sortedAt>>
panelVars == <<includeScaleOnSlip, includeKeyOnSlip>>
vars      == <<storeVars, oddsVars, parlayVars, panelVars>>

-----------------------------------------------------------------------------
(* Bounds of the model *)

\* addLeg is explored while the list is shorter than this
MaxLegs == 3

\* addLeg is explored while the id it hands out is at most this
MaxId == 4

\* at most this many field edits (updateLeg, setStake, setBookTotalOdds)
MaxEdits == 1

-----------------------------------------------------------------------------
(* Natural numbers of any size: the limbs in base 2^15 = 32768, the least  *)
(* significant first, the last one not 0; <<>> is 0.  A product of two     *)
(* limbs fits a 32-bit integer.                                            *)

MinInt(a, b) == IF a < b THEN a ELSE b

MaxInt(a, b) == IF a > b THEN a ELSE b

AbsInt(i) == IF i < 0 THEN -i ELSE i

\* 2^k for 0 <= k <= 15
Pow2(k) == <<1, 2, 4, 8, 16, 32, 64, 128, 256, 512, 1024, 2048, 4096, 8192, 16384, 32768>>[k + 1]

\* the number of binary digits of a limb
BitLen(i) == CHOOSE k \in 0..15 : i < Pow2(k) /\ (k = 0 \/ Pow2(k - 1) <= i)

Limb(a, i) == IF 1 <= i /\ i <= Len(a) THEN a[i] ELSE 0

\* the limbs without the zeros at the top
BigTrim(a) ==
    IF a = <<>> \/ a[Len(a)] # 0 THEN a
    ELSE IF \A i \in 1..Len(a) : a[i] = 0 THEN <<>>
    ELSE SubSeq(a, 1, CHOOSE i \in 1..Len(a) :
                          a[i] # 0 /\ \A j \in (i + 1)..Len(a) : a[j] = 0)

\* the number with the limbs f[1], ..., f[n]
BigFrom(f, n) == BigTrim(SubSeq(f, 1, n))

\* the natural number i < 2^31
BigOf(i) == BigTrim(<<i % 32768, (i \div 32768) % 32768, i \div 1073741824>>)

\* -1, 0, 1 as a < b, a = b, a > b
BigCmp(a, b) ==
    IF Len(a) # Len(b) THEN (IF Len(a) < Len(b) THEN -1 ELSE 1)
    ELSE IF a = b THEN 0
    ELSE IF \E i \in 1..Len(a) : a[i] < b[i] /\ \A j \in (i + 1)..Len(a) : a[j] = b[j]
    THEN -1 ELSE 1

\* the carry into limb i of a sum whose limbs before carrying are s[1], s[2],
\* ... < 2^16: the nearest limb below i that is not 32767 decides
Carry(s, i) ==
    IF i = 1 THEN 0
    ELSE IF s[i - 1] # 32767 THEN (IF s[i - 1] >= 32768 THEN 1 ELSE 0)
    ELSE IF \E j \in 1..(i - 2) : s[j] >= 32768 /\ \A l \in (j + 1)..(i - 1) : s[l] = 32767
    THEN 1 ELSE 0

\* the number whose limbs before carrying are the sequence s of length n
BigCarriedSeq(s, n) == BigFrom([i \in 1..n |-> (s[i] + Carry(s, i)) % 32768], n)

\* the number whose limbs before carrying are f[1], ..., f[n]
BigCarried(f, n) == BigCarriedSeq(SubSeq(f, 1, n), n)

BigAdd(a, b) ==
    IF a = <<>> THEN b
    ELSE IF b = <<>> THEN a
    ELSE BigCarried([i \in 1..(MaxInt(Len(a), Len(b)) + 1) |-> Limb(a, i) + Limb(b, i)],
                    MaxInt(Len(a), Len(b)) + 1)

\* the borrow from limb i of a difference whose limbs before borrowing are
\* d[1], d[2], ...: the nearest limb below i that is not 0 decides
Borrow(d, i) ==
    IF i = 1 THEN 0
    ELSE IF d[i - 1] # 0 THEN (IF d[i - 1] < 0 THEN 1 ELSE 0)
    ELSE IF \E j \in 1..(i - 2) : d[j] < 0 /\ \A l \in (j + 1)..(i - 1) : d[l] = 0
    THEN 1 ELSE 0

\* the number whose limbs before borrowing are the sequence d of length n
BigBorrowedSeq(d, n) == BigFrom([i \in 1..n |-> (d[i] - Borrow(d, i) + 32768) % 32768], n)

\* the number whose limbs before borrowing are f[1], ..., f[n]
BigBorrowed(f, n) == BigBorrowedSeq(SubSeq(f, 1, n), n)

\* a - b for a >= b
BigSub(a, b) ==
    IF b = <<>> THEN a
    ELSE BigBorrowed([i \in 1..Len(a) |-> a[i] - Limb(b, i)], Len(a))

\* |a - b|
BigDiff(a, b) == IF BigCmp(a, b) >= 0 THEN BigSub(a, b) ELSE BigSub(b, a)

\* a * k for 0 <= k < 2^15: the low part of each product and the high part
\* of the one below it
BigMulSmall(a, k) ==
    IF a = <<>> \/ k = 0 THEN <<>>
    ELSE BigCarried([i \in 1..(Len(a) + 1) |->
                        ((Limb(a, i) * k) % 32768) + ((Limb(a, i - 1) * k) \div 32768)],
                    Len(a) + 1)

\* a * 2^(15 n)
BigShlLimbs(a, n) == IF a = <<>> THEN <<>> ELSE [i \in 1..n |-> 0] \o a

\* a * (the limbs b[lo], ..., b[hi] of b, each in its place)
RECURSIVE BigMulRange(_, _, _, _)
BigMulRange(a, b, lo, hi) ==
    IF lo = hi THEN BigShlLimbs(BigMulSmall(a, b[lo]), lo - 1)
    ELSE BigAdd(BigMulRange(a, b, lo, (lo + hi) \div 2),
                BigMulRange(a, b, (lo + hi) \div 2 + 1, hi))

BigMul(a, b) ==
    IF a = <<>> \/ b = <<>> THEN <<>>
    ELSE IF Len(a) >= Len(b) THEN BigMulRange(a, b, 1, Len(b))
    ELSE BigMulRange(b, a, 1, Len(a))

\* a * 2^s: the low part of one limb and the high part of the limb below it
BigShl(a, s) ==
    IF a = <<>> THEN <<>>
    ELSE BigFrom([i \in 1..(Len(a) + s \div 15 + 1) |->
                     ((Limb(a, i - s \div 15) * Pow2(s % 15)) % 32768)
                     + ((Limb(a, i - s \div 15 - 1) * Pow2(s % 15)) \div 32768)],
                 Len(a) + s \div 15 + 1)

\* floor(a / 2^s)
BigShr(a, s) ==
    IF Len(a) <= s \div 15 THEN <<>>
    ELSE BigFrom([i \in 1..(Len(a) - s \div 15) |->
                     (Limb(a, i + s \div 15) \div Pow2(s % 15))
                     + ((Limb(a, i + s \div 15 + 1) % Pow2(s % 15)) * Pow2(15 - (s % 15)))],
                 Len(a) - s \div 15)

\* a * 2^s for any integer s, the bits below 1 dropped
BigScale(a, s) == IF s >= 0 THEN BigShl(a, s) ELSE BigShr(a, -s)

\* a mod 2^s is not 0
BigLowNonzero(a, s) ==
    \E i \in 1..Len(a) :
        \/ i <= s \div 15 /\ a[i] # 0
        \/ i = s \div 15 + 1 /\ a[i] % Pow2(s % 15) # 0

\* bit i of a (bit 0 is the lowest)
BigBit(a, i) == (Limb(a, i \div 15 + 1) \div Pow2(i % 15)) % 2

BigBitLen(a) == IF a = <<>> THEN 0 ELSE 15 * (Len(a) - 1) + BitLen(a[Len(a)])

\* the largest q <= qh with v * q <= r
RECURSIVE BigFixDigit(_, _, _)
BigFixDigit(r, v, qh) ==
    IF BigCmp(BigMulSmall(v, qh), r) > 0 THEN BigFixDigit(r, v, qh - 1) ELSE qh

\* floor(r / v) for v <= r < 2^15 v, the top limb of v at least 2^14: the
\* estimate from the two top limbs of r is at most 2 too large
BigDigit(r, v) ==
    BigFixDigit(r, v,
        MinInt(32767, (Limb(r, Len(v) + 1) * 32768 + Limb(r, Len(v))) \div v[Len(v)]))

\* long division: the limbs u[i], ..., u[1] are still to bring down, r is the
\* remainder and q the quotient so far; <<quotient, remainder>>
RECURSIVE BigDivFrom(_, _, _, _, _)

\* the next limb of the quotient is qd, r the remainder with u[i] brought down
BigDivTake(u, v, i, r, q, qd) ==
    BigDivFrom(u, v, i - 1, BigSub(r, BigMulSmall(v, qd)), <<qd>> \o q)

BigDivStep(u, v, i, r, q) ==
    BigDivTake(u, v, i, r, q, IF BigCmp(r, v) < 0 THEN 0 ELSE BigDigit(r, v))

BigDivFrom(u, v, i, r, q) ==
    IF i = 0 THEN <<q, r>> ELSE BigDivStep(u, v, i, BigTrim(<<u[i]>> \o r), q)

\* <<floor(u / v), u mod v>> for u with at least the limbs of v, the top
\* limb of v at least 2^14
BigDivAligned(u, v) ==
    BigDivFrom(u, v, Len(u) - Len(v) + 1,
               BigTrim(SubSeq(u, Len(u) - Len(v) + 2, Len(u))), <<>>)

\* the quotient without the zeros at the top, and whether a remainder is left
BigDivResult(qr) == <<BigTrim(qr[1]), qr[2] # <<>>>>

\* <<floor(u / v), u mod v # 0>> for v # 0 (long division, both shifted so
\* that the top limb of v is at least 2^14)
BigDivMod(u, v) ==
    IF Len(u) < Len(v) THEN <<<<>>, u # <<>>>>
    ELSE BigDivResult(BigDivAligned(BigShl(u, 15 - BitLen(v[Len(v)])),
                                    BigShl(v, 15 - BitLen(v[Len(v)]))))

\* 5^1, 5^2, 5^4, ..., 5^512: each the square of the one before
Pow5Squares ==
    <<
     <<5>>,
     <<25>>,
     <<625>>,
     <<30177, 11>>,
     <<28609, 3556, 142>>,
     <<28545, 2905, 1390, 27498, 20194>>,
     <<7937, 32468, 13714, 29127, 32470, 21746, 32054, 8188, 1001, 12446>>,
     <<15873, 23850, 25636, 7932, 4048, 25255, 3011, 14962, 27683, 8171,
       9039, 9952, 11328, 13851, 28467, 16268, 9779, 19463, 9340, 4727>>,
     <<31745, 12380, 7534, 30364, 30507, 6963, 25078, 2711, 17938, 15521,
       16815, 21363, 31988, 15105, 13669, 14519, 9906, 19808, 14105, 12581,
       20819, 27459, 4276, 1822, 32596, 199, 21967, 15970, 7921, 19647, 2620,
       10974, 18423, 441, 14194, 9079, 31983, 31645, 32215, 681>>,
     <<30721, 30937, 18847, 16275, 28103, 29352, 23523, 19275, 5981, 29973,
       26336, 28886, 15409, 162, 20913, 11171, 5350, 28035, 8741, 11214,
       18267, 26472, 15900, 24468, 7585, 17236, 31564, 21377, 23806, 17348,
       3016, 22797, 31534, 30883, 15734, 14090, 23241, 29821, 27567, 20011,
       21298, 30946, 22431, 24628, 19519, 8996, 8554, 12719, 31071, 7617,
       19010, 28453, 15034, 25938, 22940, 11785, 18807, 7464, 31084, 25421,
       15098, 11880, 28448, 22604, 7494, 2894, 23841, 4940, 12346, 5646,
       17635, 1423, 6026, 22293, 26162, 4550, 19485, 698, 6349, 14>>
    >>

\* 5^e for e < 1024: the product of the 5^(2^k) for the bits of e that are
\* set, k the place of the lowest bit of e
RECURSIVE Pow5From(_, _)
Pow5From(e, k) ==
    IF e = 0 THEN <<1>>
    ELSE IF e % 2 = 1 THEN BigMul(Pow5Squares[k], Pow5From(e \div 2, k + 1))
    ELSE Pow5From(e \div 2, k + 1)

\* 5^e
RECURSIVE Pow5(_)
Pow5(e) ==
    IF e >= 1024 THEN BigMul(Pow5(e - 512), Pow5Squares[10]) ELSE Pow5From(e, 1)

-----
(* JavaScript numbers: IEEE 754 doubles.  A finite double is s * m * 2^q    *)
(* with s = 1 or -1, m < 2^53 a natural number and -1074 <= q <= 971;       *)
(* m >= 2^52 unless q = -1074 (subnormal) ; 0 and -0 have m = 0, q = 0.     *)

NaN     == [k |-> "nan",  s |-> 1,  m |-> <<>>, q |-> 0]
PosInf  == [k |-> "inf",  s |-> 1,  m |-> <<>>, q |-> 0]
NegInf  == [k |-> "inf",  s |-> -1, m |-> <<>>, q |-> 0]
Zero    == [k |-> "fin",  s |-> 1,  m |-> <<>>, q |-> 0]
NegZero == [k |-> "fin",  s |-> -1, m |-> <<>>, q |-> 0]
Null    == [k |-> "null", s |-> 1,  m |-> <<>>, q |-> 0]

Inf(s) == IF s > 0 THEN PosInf ELSE NegInf

SignedZero(s) == IF s > 0 THEN Zero ELSE NegZero

\* s * m * 2^q with m < 2^54 after rounding: 2^53 takes the next exponent, a
\* value beyond the largest double is an infinity
Pack(s, m, q) ==
    IF m = <<>> THEN SignedZero(s)
    ELSE IF BigBitLen(m) > 53
    THEN (IF q + 1 > 971 THEN Inf(s)
          ELSE [k |-> "fin", s |-> s, m |-> BigShr(m, 1), q |-> q + 1])
    ELSE IF q > 971 THEN Inf(s)
    ELSE [k |-> "fin", s |-> s, m |-> m, q |-> q]

\* round to nearest, ties to even: (n + f) / 2^sh goes up if the bit below
\* the kept ones is set and either something is left below it or the lowest
\* kept bit is set
RoundsUp(n, sh, sticky) ==
    /\ BigBit(n, sh - 1) = 1
    /\ (sticky \/ BigLowNonzero(n, sh - 1) \/ BigBit(n, sh) = 1)

\* (n + f) / 2^sh rounded to a natural number
Rounded(n, sh, sticky) ==
    IF sh <= 0 THEN BigShl(n, -sh)
    ELSE BigAdd(BigShr(n, sh), IF RoundsUp(n, sh, sticky) THEN <<1>> ELSE <<>>)

\* the exponent of the double nearest n * 2^q: 53 bits are kept, fewer at the
\* bottom of the range
ExponentOf(n, q) == MaxInt(q + BigBitLen(n) - 53, -1074)

\* the double nearest s * (n + f) * 2^q, where 0 < f < 1 if sticky and f = 0
\* otherwise.  With sticky n has at least 55 bits.
RoundToDouble(s, n, q, sticky) ==
    IF n = <<>> THEN SignedZero(s)
    ELSE Pack(s, Rounded(n, ExponentOf(n, q) - q, sticky), ExponentOf(n, q))

\* the double nearest s * (qr[1] + f) * 2^q: a quotient and whether a
\* remainder is left or bits were lost before the division
RoundQuotient(s, qr, q, lost) == RoundToDouble(s, qr[1], q, qr[2] \/ lost)

\* the double nearest s * (n / d) * 2^q, n scaled by 2^k to give a quotient
\* of 55 or 56 bits
QuotientAt(s, n, d, q, k) ==
    RoundQuotient(s, BigDivMod(BigScale(n, k), d), q - k, k < 0 /\ BigLowNonzero(n, -k))

\* the double nearest s * (n / d) * 2^q for naturals n, d > 0
NearestQuotient(s, n, d, q) == QuotientAt(s, n, d, q, 55 + BigBitLen(d) - BigBitLen(n))

\* the double nearest s * (n / d) * 10^e for naturals n, d (d > 0); beyond
\* these exponents the value is above 2^1024 or below 2^-1075
Nearest(s, n, d, e) ==
    IF n = <<>> THEN SignedZero(s)
    ELSE IF e >= 0 /\ 15 * (Len(n) - 1 - Len(d)) + 3 * e >= 1024 THEN Inf(s)
    ELSE IF e < 0 /\ 15 * (Len(n) - Len(d) + 1) + 3 * e < -1075 THEN SignedZero(s)
    ELSE NearestQuotient(s, BigMul(n, Pow5(MaxInt(e, 0))), BigMul(d, Pow5(MaxInt(-e, 0))), e)

\* the double nearest (n/d) * 10^e for integers n, d (d # 0)
MkFin(n, d, e) ==
    Nearest(IF (n < 0) # (d < 0) THEN -1 ELSE 1, BigOf(AbsInt(n)), BigOf(AbsInt(d)), e)

\* the integer i
Num(i) == RoundToDouble(IF i < 0 THEN -1 ELSE 1, BigOf(AbsInt(i)), 0, FALSE)

\* the double nearest n/d for integers n # 0, d # 0
Rat(n, d) ==
    NearestQuotient(IF (n < 0) # (d < 0) THEN -1 ELSE 1, BigOf(AbsInt(n)), BigOf(AbsInt(d)), 0)

One == [k |-> "fin", s |-> 1, m |-> <<0, 0, 0, 128>>, q |-> -52]

Hundred == [k |-> "fin", s |-> 1, m |-> <<0, 0, 0, 200>>, q |-> -46]

isFinite(x) == x.k = "fin"

isNaN(x) == x.k = "nan"

isZero(x) == x.k = "fin" /\ x.m = <<>>

\* the sign bit as 1 or -1
SignBit(x) == x.s

\* -1, 0 or 1; 0 for NaN and for both zeros
Sign(x) == IF x.k = "nan" \/ x.k = "null" \/ isZero(x) THEN 0 ELSE x.s

Neg(x) == IF x.k = "nan" THEN NaN ELSE [x EXCEPT !.s = -x.s]

Abs(x) == IF x.k = "nan" THEN NaN ELSE [x EXCEPT !.s = 1]

\* xs * a * 2^q + ys * b * 2^q for naturals a, b > 0: the sign of the larger
\* one, +0 if they cancel
SumOf(xs, a, ys, b, q) ==
    IF xs # ys /\ a = b THEN Zero
    ELSE RoundToDouble(IF xs = ys \/ BigCmp(a, b) > 0 THEN xs ELSE ys,
                       IF xs = ys THEN BigAdd(a, b) ELSE BigDiff(a, b), q, FALSE)

\* x + y for finite nonzero x, y with x.q >= y.q (so |x| >= |y| unless the
\* exponents are equal).  Further than 55 bits apart y is less than a
\* quarter of a unit in the last place of x.
AddAligned(x, y) ==
    IF x.q - y.q > 55 THEN x ELSE SumOf(x.s, BigShl(x.m, x.q - y.q), y.s, y.m, y.q)

Add(x, y) ==
    CASE isNaN(x) \/ isNaN(y) -> NaN
      [] ~isFinite(x) /\ ~isFinite(y) -> IF x = y THEN x ELSE NaN
      [] ~isFinite(x) -> x
      [] ~isFinite(y) -> y
      [] isZero(x) /\ isZero(y) -> IF x = NegZero /\ y = NegZero THEN NegZero ELSE Zero
      [] isZero(x) -> y
      [] isZero(y) -> x
      [] OTHER -> AddAligned(IF x.q >= y.q THEN x ELSE y, IF x.q >= y.q THEN y ELSE x)

Sub(x, y) == Add(x, Neg(y))

Mul(x, y) ==
    CASE isNaN(x) \/ isNaN(y) -> NaN
      [] ~isFinite(x) \/ ~isFinite(y) ->
            IF isZero(x) \/ isZero(y) THEN NaN ELSE Inf(x.s * y.s)
      [] isZero(x) \/ isZero(y) -> SignedZero(x.s * y.s)
      [] OTHER -> RoundToDouble(x.s * y.s, BigMul(x.m, y.m), x.q + y.q, FALSE)

Div(x, y) ==
    CASE isNaN(x) \/ isNaN(y) -> NaN
      [] ~isFinite(x) /\ ~isFinite(y) -> NaN
      [] ~isFinite(x) -> Inf(x.s * y.s)
      [] ~isFinite(y) -> SignedZero(x.s * y.s)
      [] isZero(y) -> IF isZero(x) THEN NaN ELSE Inf(x.s * y.s)
      [] isZero(x) -> SignedZero(x.s * y.s)
      [] OTHER -> NearestQuotient(x.s * y.s, x.m, y.m, x.q - y.q)

\* |x| < |y| for finite nonzero x, y
LtAbs(x, y) == x.q < y.q \/ (x.q = y.q /\ BigCmp(x.m, y.m) < 0)

Lt(x, y) ==
    CASE isNaN(x) \/ isNaN(y) -> FALSE
      [] Sign(x) # Sign(y) -> Sign(x) < Sign(y)
      [] Sign(x) = 0 \/ x = y -> FALSE
      [] ~isFinite(x) -> Sign(x) < 0
      [] ~isFinite(y) -> Sign(y) > 0
      [] Sign(x) > 0 -> LtAbs(x, y)
      [] OTHER -> LtAbs(y, x)

Eq(x, y) == ~isNaN(x) /\ ~isNaN(y) /\ (x = y \/ (isZero(x) /\ isZero(y)))

Le(x, y) == Lt(x, y) \/ Eq(x, y)

Gt(x, y) == Lt(y, x)

Ge(x, y) == Le(y, x)

\* Math.round goes up from a half and from anything above it; below zero a
\* half itself goes up as well, towards zero
RoundsUpFromHalf(x, sh) ==
    BigBit(x.m, sh - 1) = 1 /\ (x.s > 0 \/ BigLowNonzero(x.m, sh - 1))

\* Math.round: the nearest integer, halves towards +Infinity; a result of
\* zero keeps the sign of x
round(x) ==
    IF ~isFinite(x) \/ isZero(x) \/ x.q >= 0 THEN x
    ELSE IF -x.q >= 54 THEN SignedZero(x.s)
    ELSE RoundToDouble(x.s,
             BigAdd(BigShr(x.m, -x.q), IF RoundsUpFromHalf(x, -x.q) THEN <<1>> ELSE <<>>),
             0, FALSE)

-----------------------------------------------------------------------------
(* utils/odds.ts *)

\* mutant of americanToDecimal: the two branches are swapped
americanToDecimal_swapped(odds) ==
    IF ~isFinite(odds) \/ Eq(odds, Zero) THEN Null
    ELSE IF Gt(odds, Zero) THEN Add(One, Div(Hundred, Abs(odds)))
    ELSE Add(One, Div(odds, Hundred))

americanToDecimal(odds) ==
    IF ~isFinite(odds) \/ Eq(odds, Zero) THEN Null
    ELSE IF Gt(odds, Zero) THEN Add(One, Div(odds, Hundred))
    ELSE Add(One, Div(Hundred, Abs(odds)))

\* mutant of americanToImpliedProb: the negative branch drops the + 100
americanToImpliedProb_noVig(odds) ==
    IF ~isFinite(odds) \/ Eq(odds, Zero) THEN Null
    ELSE IF Gt(odds, Zero) THEN Div(Hundred, Add(odds, Hundred))
    ELSE Div(Abs(odds), Abs(odds))

americanToImpliedProb(odds) ==
    IF ~isFinite(odds) \/ Eq(odds, Zero) THEN Null
    ELSE IF Gt(odds, Zero) THEN Div(Hundred, Add(odds, Hundred))
    ELSE Div(Abs(odds), Add(Abs(odds), Hundred))

NoMarket == [ok |-> FALSE]

\* mutant of overround: the opponent's probability is not the one added
overround_doubled(pYou, pOpp) == Add(pYou, pYou)

\* const overround = pYou + pOpp
overround(pYou, pOpp) == Add(pYou, pOpp)

\* mutant of hold: floored at zero
hold_clamped(ov) == IF Lt(Sub(ov, One), Zero) THEN Zero ELSE Sub(ov, One)

\* const hold = overround - 1
hold(ov) == Sub(ov, One)

\* mutant of pNoVigYou: the margin is not normalised away
pNoVigYou_raw(pYou, ov) == pYou

\* const pNoVigYou = pYou / overround
pNoVigYou(pYou, ov) == Div(pYou, ov)

\* const fairDecimal = 1 / pNoVigYou
fairDecimal(pNoVig) == Div(One, pNoVig)

\* mutant of houseEdgePct: the ratio is taken the other way round
houseEdgePct_inverted(bookDecimal, fairDec) == Sub(One, Div(fairDec, bookDecimal))

\* const houseEdgePct = 1 - bookDecimal / fairDecimal
houseEdgePct(bookDecimal, fairDec) == Sub(One, Div(bookDecimal, fairDec))

analyzeTwoSidedMarket(yourO, oppO) ==
    LET bookDecimal == americanToDecimal(yourO)
        pYou        == americanToImpliedProb(yourO)
        pOpp        == americanToImpliedProb(oppO)
        ov          == overround(pYou, pOpp)
        pNoVig      == pNoVigYou(pYou, ov)
        fairDec     == fairDecimal(pNoVig)
    IN  IF bookDecimal = Null \/ pYou = Null \/ pOpp = Null THEN NoMarket
        ELSE IF ~isFinite(ov) \/ Le(ov, Zero) THEN NoMarket
        ELSE IF ~isFinite(pNoVig) \/ Le(pNoVig, Zero) \/ Ge(pNoVig, One)
             THEN NoMarket
        ELSE IF ~isFinite(fairDec) \/ Le(fairDec, One) THEN NoMarket
        ELSE [ok |-> TRUE, pYou |-> pYou, pOpp |-> pOpp, overround |-> ov,
              hold |-> hold(ov), pNoVigYou |-> pNoVig, fairDecimal |-> fairDec,
              houseEdgePct |-> houseEdgePct(bookDecimal, fairDec)]

\* mutant of decimalToAmerican: a decimal of exactly 2 takes the negative
\* branch
decimalToAmerican_evensNegative(decimal) ==
    IF ~isFinite(decimal) \/ Le(decimal, One) THEN Null
    ELSE IF Gt(decimal, Num(2)) THEN round(Mul(Sub(decimal, One), Hundred))
    ELSE round(Div(Num(-100), Sub(decimal, One)))

\* lib/parlayMath.ts: decimal odds -> American odds (rounded integer)
decimalToAmerican(decimal) ==
    IF ~isFinite(decimal) \/ Le(decimal, One) THEN Null
    ELSE IF Ge(decimal, Num(2)) THEN round(Mul(Sub(decimal, One), Hundred))
    ELSE round(Div(Num(-100), Sub(decimal, One)))

\* finite nonzero odds between 50 and 50 * MaxOddsK in absolute value
MaxOddsK == 3

OrdinaryOdds ==
    {Num(-110)} \cup {Num(50 * i) : i \in 1..MaxOddsK}
                \cup {Num(-50 * i) : i \in 1..MaxOddsK}

\* 1e200, -1e200, 1e-200 and -1e-200
ExtremeOdds ==
    {MkFin(1, 1, 200), MkFin(-1, 1, 200), MkFin(1, 1, -200), MkFin(-1, 1, -200)}

\* 101.5 and -101.5: the decimal of either, as a double, gives American odds
\* a rounding error short of the half they came from
HalfOdds == {Rat(203, 2), Rat(-203, 2)}

\* what Number(string) can give: any double
OddsDomain ==
    OrdinaryOdds \cup HalfOdds \cup ExtremeOdds
                 \cup {Zero, NegZero, NaN, PosInf, NegInf}

OddsIdle ==
    /\ yourOdds = Zero
    /\ oppOdds = Zero
    /\ phase = "idle"
    /\ decimalOut = Null
    /\ probOut = Null
    /\ market = NoMarket
    /\ marketSwap = NoMarket
    /\ decimalIn = One
    /\ americanOut = Null
    /\ americanBack = Null

\* decimals given to decimalToAmerican: 1, 2, values on either side of 2,
\* values whose American odds fall between two integers (17/8 falls on a
\* half; 401/200 and 401/201 would, and the doubles nearest to them fall
\* to one side of it), a product of two decimals, values that are not decimal
\* odds, 1e200, 1e-200, and 1e307, whose American odds overflow
DecimalDomain ==
    {One, Num(2), Rat(3, 2), Rat(5, 3), Rat(7, 4), Rat(399, 200), Rat(17, 8),
     Rat(401, 200), Rat(401, 201), Rat(441, 121), Zero, NegZero, Rat(1, 2),
     Num(-3), NaN, PosInf, NegInf,
     MkFin(1, 1, 200), MkFin(1, 1, -200), MkFin(1, 1, 307)}

OddsInit ==
    /\ yourOdds \in OddsDomain
    /\ oppOdds \in OddsDomain
    /\ phase = "input"
    /\ decimalOut = Null
    /\ probOut = Null
    /\ market = NoMarket
    /\ marketSwap = NoMarket
    /\ decimalIn \in DecimalDomain
    /\ americanOut = Null
    /\ americanBack = Null

\* the conversions applied to yourOdds and to decimalIn
Convert ==
    /\ phase = "input"
    /\ decimalOut' = americanToDecimal(yourOdds)
    /\ probOut' = americanToImpliedProb(yourOdds)
    /\ americanOut' = decimalToAmerican(decimalIn)
    /\ americanBack' = IF decimalOut' = Null THEN Null
                       ELSE decimalToAmerican(decimalOut')
    /\ phase' = "converted"
    /\ UNCHANGED <<storeVars, parlayVars, panelVars>>
    /\ UNCHANGED <<yourOdds, oppOdds, market, marketSwap, decimalIn>>

\* the two-sided analysis, from either side of the market
Analyze ==
    /\ phase = "converted"
    /\ market' = analyzeTwoSidedMarket(yourOdds, oppOdds)
    /\ marketSwap' = analyzeTwoSidedMarket(oppOdds, yourOdds)
    /\ phase' = "analyzed"
    /\ UNCHANGED <<storeVars, parlayVars, panelVars>>
    /\ UNCHANGED <<yourOdds, oppOdds, decimalOut, probOut,
                   decimalIn, americanOut, americanBack>>

-----------------------------------------------------------------------------
(* Strings, and Number(string) *)

\* A string is the sequence of its characters.  A character outside ASCII
\* (and the vertical tab) is written by its code point: "U+00A0".

\* what trim() strips and Number() skips: TAB, VT, FF, SP and the byte
\* order mark; the line terminators LF, CR, LS, PS; the other Unicode space
\* separators (category Zs)
WhiteSpace ==
    {"\t", "U+000B", "\f", " ", "U+FEFF",
     "\n", "\r", "U+2028", "U+2029",
     "U+00A0", "U+1680", "U+2000", "U+2001", "U+2002", "U+2003", "U+2004",
     "U+2005", "U+2006", "U+2007", "U+2008", "U+2009", "U+200A", "U+202F",
     "U+205F", "U+3000"}

Digits == {"0", "1", "2", "3", "4", "5", "6", "7", "8", "9"}

DigitVal(c) ==
    CASE c = "0" -> 0 [] c = "1" -> 1 [] c = "2" -> 2 [] c = "3" -> 3
      [] c = "4" -> 4 [] c = "5" -> 5 [] c = "6" -> 6 [] c = "7" -> 7
      [] c = "8" -> 8 [] c = "9" -> 9

RECURSIVE trimStart(_)
trimStart(s) ==
    IF s # <<>> /\ Head(s) \in WhiteSpace THEN trimStart(Tail(s)) ELSE s

RECURSIVE trimEnd(_)
trimEnd(s) ==
    IF s # <<>> /\ s[Len(s)] \in WhiteSpace
    THEN trimEnd(SubSeq(s, 1, Len(s) - 1)) ELSE s

\* String.prototype.trim
trim(s) == trimEnd(trimStart(s))

\* the digits of a natural number followed by one more digit
PushDigit(a, dg) == BigAdd(BigMulSmall(a, 10), BigOf(dg))

\* The scan of a StrUnsignedDecimalLiteral, one character at a time:
\* digits [. digits] [e [+-] digits].  ph is the part being read, mant the
\* digits of the mantissa read so far as a natural number, nInt / nFrac /
\* nExp the number of digits read before the point, after it and in the
\* exponent, xval the exponent read so far.  The mantissa is complete when
\* the exponent begins and is below 10^(nInt + nFrac), so from an exponent of
\* nInt + nFrac + 400 on the value is decided whatever digits follow
\* (Infinity, or 0 when the exponent is negative or the mantissa is 0), and
\* xval stays there.
ScanStart ==
    [ph |-> "int", mant |-> <<>>, nInt |-> 0, nFrac |-> 0,
     xneg |-> FALSE, xval |-> 0, nExp |-> 0]

ScanChar(st, c) ==
    CASE st.ph = "int" /\ c \in Digits ->
            [st EXCEPT !.mant = PushDigit(@, DigitVal(c)), !.nInt = @ + 1]
      [] st.ph = "int" /\ c = "." ->
            [st EXCEPT !.ph = "frac"]
      [] st.ph = "frac" /\ c \in Digits ->
            [st EXCEPT !.mant = PushDigit(@, DigitVal(c)), !.nFrac = @ + 1]
      [] st.ph \in {"int", "frac"} /\ c \in {"e", "E"} /\ st.nInt + st.nFrac > 0 ->
            [st EXCEPT !.ph = "expSign"]
      [] st.ph = "expSign" /\ c \in {"+", "-"} ->
            [st EXCEPT !.ph = "exp", !.xneg = (c = "-")]
      [] st.ph \in {"expSign", "exp"} /\ c \in Digits ->
            [st EXCEPT !.ph = "exp",
                       !.xval = MinInt(10 * @ + DigitVal(c), st.nInt + st.nFrac + 400),
                       !.nExp = @ + 1]
      [] OTHER ->
            [st EXCEPT !.ph = "bad"]

RECURSIVE Scan(_, _)
Scan(s, st) == IF s = <<>> THEN st ELSE Scan(Tail(s), ScanChar(st, Head(s)))

\* the scan ended on a complete literal
ScanAccepts(st) ==
    \/ st.ph \in {"int", "frac"} /\ st.nInt + st.nFrac > 0
    \/ st.ph = "exp" /\ st.nExp > 0

\* the double nearest mant * 10^(+-xval - nFrac)
ScanValue(st) ==
    Nearest(1, st.mant, <<1>>, (IF st.xneg THEN -st.xval ELSE st.xval) - st.nFrac)

HexVal(c) ==
    CASE c \in Digits -> DigitVal(c)
      [] c \in {"a", "A"} -> 10 [] c \in {"b", "B"} -> 11
      [] c \in {"c", "C"} -> 12 [] c \in {"d", "D"} -> 13
      [] c \in {"e", "E"} -> 14 [] c \in {"f", "F"} -> 15

\* 16, 8 or 2 for a 0x / 0o / 0b prefix (either case), otherwise 0
RadixOf(b) ==
    IF Len(b) < 2 \/ b[1] # "0" THEN 0
    ELSE CASE b[2] \in {"x", "X"} -> 16
           [] b[2] \in {"o", "O"} -> 8
           [] b[2] \in {"b", "B"} -> 2
           [] OTHER -> 0

\* the natural number written by the digits ds in the radix
RECURSIVE RadixValue(_, _)
RadixValue(ds, radix) ==
    IF ds = <<>> THEN <<>>
    ELSE BigAdd(BigMulSmall(RadixValue(SubSeq(ds, 1, Len(ds) - 1), radix), radix),
                BigOf(HexVal(ds[Len(ds)])))

\* a NonDecimalIntegerLiteral: the prefix and at least one digit of the radix
NonDecimalAccepts(b) ==
    /\ RadixOf(b) # 0
    /\ Len(b) > 2
    /\ \A i \in 3..Len(b) :
          /\ b[i] \in Digits \cup {"a", "b", "c", "d", "e", "f",
                                   "A", "B", "C", "D", "E", "F"}
          /\ HexVal(b[i]) < RadixOf(b)

\* Infinity, or a decimal literal; anything else is NaN
UnsignedNumber(b) ==
    IF b = <<"I", "n", "f", "i", "n", "i", "t", "y">> THEN PosInf
    ELSE LET st == Scan(b, ScanStart)
         IN  IF ScanAccepts(st) THEN ScanValue(st) ELSE NaN

\* Number(s): surrounding white space is dropped, the empty string is 0, a
\* 0x / 0o / 0b literal (which takes no sign) is its integer, a decimal
\* literal or Infinity may carry a sign, anything else is NaN
Number(s) ==
    LET t      == trim(s)
        signed == t # <<>> /\ Head(t) \in {"+", "-"}
        body   == IF signed THEN Tail(t) ELSE t
        v      == UnsignedNumber(body)
    IN  IF t = <<>> THEN Zero
        ELSE IF NonDecimalAccepts(t)
             THEN RoundToDouble(1, RadixValue(SubSeq(t, 3, Len(t)), RadixOf(t)), 0, FALSE)
        ELSE IF signed /\ Head(t) = "-" THEN Neg(v) ELSE v

-----------------------------------------------------------------------------
(* lib/parlayMath.ts *)

\* return Number.isFinite(n) && n > 0 ? n : null
parseStake(stakeStr) ==
    LET n == Number(stakeStr)
    IN  IF isFinite(n) /\ Gt(n, Zero) THEN n ELSE Null

\* mutant of isValid: only the blank check is left
isValid_blankOnly(americanOdds, oddsNum, decimal, impliedProb) ==
    trim(americanOdds) # <<>>

\* the isValid of parseLegs
isValid(americanOdds, oddsNum, decimal, impliedProb) ==
    /\ trim(americanOdds) # <<>>
    /\ isFinite(oddsNum)
    /\ ~isZero(oddsNum)
    /\ decimal # Null
    /\ impliedProb # Null

\* the mapper of parseLegs: { ...leg, oddsNum, decimal, impliedProb, isValid }
parsedLeg(leg) ==
    LET entry(oddsNum, decimal, impliedProb) ==
            [id |-> leg.id, label |-> leg.label, americanOdds |-> leg.americanOdds,
             useOpponent |-> leg.useOpponent, opponentOdds |-> leg.opponentOdds,
             oddsNum |-> oddsNum, decimal |-> decimal, impliedProb |-> impliedProb,
             isValid |-> isValid(leg.americanOdds, oddsNum, decimal, impliedProb)]
        converted(oddsNum) ==
            entry(oddsNum, americanToDecimal(oddsNum), americanToImpliedProb(oddsNum))
    IN  converted(Number(leg.americanOdds))

\* mutant of allValid: an empty list counts as all valid
allValid_emptyToo(validLegs, ls) == Len(validLegs) = Len(ls)

\* validLegs.length === legs.length && validLegs.length > 0
allValid(validLegs, ls) == Len(validLegs) = Len(ls) /\ Len(validLegs) > 0

parseLegs(ls) ==
    LET keep(l) == l.isValid
        result(parsedLegs, validLegs) ==
            [parsedLegs |-> parsedLegs, validLegs |-> validLegs,
             allValid |-> allValid(validLegs, ls)]
        filtered(parsedLegs) == result(parsedLegs, SelectSeq(parsedLegs, keep))
    IN  filtered([i \in DOMAIN ls |-> parsedLeg(ls[i])])

\* leg.decimal ?? 1
decimalOr1(leg) == IF leg.decimal = Null THEN One ELSE leg.decimal

\* mutant of productOfDecimals: only the first leg counts
productOfDecimals_headOnly(validLegs) ==
    IF validLegs = <<>> THEN One ELSE Mul(One, decimalOr1(validLegs[1]))

\* validLegs.reduce((acc, leg) => acc * (leg.decimal ?? 1), 1)
RECURSIVE productOfDecimals(_)
productOfDecimals(validLegs) ==
    IF validLegs = <<>> THEN One
    ELSE Mul(productOfDecimals(SubSeq(validLegs, 1, Len(validLegs) - 1)),
             decimalOr1(validLegs[Len(validLegs)]))

NoMetrics == [ok |-> FALSE]

\* mutant of profit: the stake is not taken off
profit_gross(potentialReturn, stakeNum) == potentialReturn

\* const profit = potentialReturn - stake
profit(potentialReturn, stakeNum) == Sub(potentialReturn, stakeNum)

computeParlayMetrics(stakeNum, validLegs) ==
    LET metricsOf(combinedDecimal, potentialReturn) ==
            IF Len(validLegs) = 0 THEN NoMetrics
            ELSE IF ~isFinite(combinedDecimal) \/ Le(combinedDecimal, One)
                 THEN NoMetrics
            ELSE [ok |-> TRUE,
                  combinedDecimal |-> combinedDecimal,
                  parlayImpliedProb |-> Div(One, combinedDecimal),
                  potentialReturn |-> potentialReturn,
                  profit |-> profit(potentialReturn, stakeNum)]
        combined(combinedDecimal) ==
            metricsOf(combinedDecimal, Mul(stakeNum, combinedDecimal))
    IN  combined(productOfDecimals(validLegs))

NoScale == [ok |-> FALSE]

\* mutant of adjustmentPct: the 1 is not taken off the ratio
adjustmentPct_ratio(bookTotalDecimal, independentDecimal) ==
    Mul(Div(bookTotalDecimal, independentDecimal), Hundred)

\* const adjustmentPct = (bookTotalDecimal / independentDecimal - 1) * 100
adjustmentPct(bookTotalDecimal, independentDecimal) ==
    Mul(Sub(Div(bookTotalDecimal, independentDecimal), One), Hundred)

\* if (validLegs.length < 2) return null
tooFewLegs(validLegs) == Len(validLegs) < 2

computePricingScaleFromBookTotal(validLegs, bookTotalDecimal) ==
    LET scaled(independentDecimal) ==
            IF tooFewLegs(validLegs) THEN NoScale
            ELSE IF ~isFinite(bookTotalDecimal) \/ Le(bookTotalDecimal, One)
                 THEN NoScale
            ELSE IF ~isFinite(independentDecimal) \/ Le(independentDecimal, One)
                 THEN NoScale
            ELSE [ok |-> TRUE,
                  independentDecimal |-> independentDecimal,
                  bookTotalDecimal |-> bookTotalDecimal,
                  adjustmentPct |-> adjustmentPct(bookTotalDecimal, independentDecimal)]
    IN  scaled(productOfDecimals(validLegs))

-----------------------------------------------------------------------------
(* The memos of the App: parlayMetrics, fairParlayMetrics, evMetrics *)

\* the parlayMetrics memo: null without a parsed stake, then the computation
\* of computeParlayMetrics on the valid legs
App_parlayMetrics(pStake, validLegs) ==
    IF pStake = Null \/ Len(validLegs) = 0 THEN NoMetrics
    ELSE computeParlayMetrics(pStake, validLegs)

\* the predicate of legs.every(...) in fairParlayMetrics
hasOpp(leg) ==
    /\ trim(leg.opponentOdds) # <<>>
    /\ isFinite(Number(leg.opponentOdds))
    /\ ~isZero(Number(leg.opponentOdds))

\* nums.reduce((acc, p) => acc * p, 1)
RECURSIVE productOf(_)
productOf(nums) ==
    IF nums = <<>> THEN One
    ELSE Mul(productOf(SubSeq(nums, 1, Len(nums) - 1)), nums[Len(nums)])

\* nums.reduce((a, b) => a + b, 0)
RECURSIVE sumOf(_)
sumOf(nums) ==
    IF nums = <<>> THEN Zero
    ELSE Add(sumOf(SubSeq(nums, 1, Len(nums) - 1)), nums[Len(nums)])

\* mutant of edgePct: the ratio is taken the other way round
edgePct_inverted(actualMultiple, fairDec) ==
    IF Gt(fairDec, Zero) THEN Sub(One, Div(fairDec, actualMultiple)) ELSE Null

\* const edgePct = fairDecimal > 0 ? 1 - actualMultiple / fairDecimal : null
edgePct(actualMultiple, fairDec) ==
    IF Gt(fairDec, Zero) THEN Sub(One, Div(actualMultiple, fairDec)) ELSE Null

NoFair == [ok |-> FALSE]

\* const allHaveOpp = legs.every(...)
allHaveOpp(ls) == \A i \in DOMAIN ls : hasOpp(ls[i])

\* fairParlayMetrics from the product of the legs' no-vig probabilities on:
\* the guard on parlayProbFair and the record
fairOfProbs(pStake, parlayProbFair, legHolds, pm) ==
    LET fairDec    == Div(One, parlayProbFair)
        fairReturn == Mul(pStake, fairDec)
    IN  IF ~isFinite(parlayProbFair) \/ Le(parlayProbFair, Zero) THEN NoFair
        ELSE [ok |-> TRUE,
              parlayProbFair |-> parlayProbFair,
              fairDecimal |-> fairDec,
              fairReturn |-> fairReturn,
              fairProfit |-> Sub(fairReturn, pStake),
              edgePct |-> IF ~pm.ok THEN Null
                          ELSE edgePct(pm.combinedDecimal, fairDec),
              avgLegHold |-> IF Len(legHolds) > 0
                             THEN Div(sumOf(legHolds), Num(Len(legHolds)))
                             ELSE Null]

\* mutant of fairOfMarkets: a leg without a market is skipped
fairOfMarkets_skipMissing(pStake, markets, pm) ==
    LET hasMarket(m) == m.ok
        present      == SelectSeq(markets, hasMarket)
    IN  fairOfProbs(pStake,
                    productOf([i \in DOMAIN present |-> present[i].pNoVigYou]),
                    [i \in DOMAIN present |-> present[i].hold],
                    pm)

\* fairParlayMetrics from the legs' markets on: the loop that returns null
\* at the first leg without a market and collects pNoVigYou and hold
fairOfMarkets(pStake, markets, pm) ==
    IF \E i \in DOMAIN markets : ~markets[i].ok THEN NoFair
    ELSE fairOfProbs(pStake,
                     productOf([i \in DOMAIN markets |-> markets[i].pNoVigYou]),
                     [i \in DOMAIN markets |-> markets[i].hold],
                     pm)

\* the fairParlayMetrics memo (ls: all the legs; pm: the parlayMetrics memo)
App_fairParlayMetrics(pStake, ls, validLegs, pm) ==
    IF pStake = Null \/ Len(validLegs) = 0 THEN NoFair
    ELSE IF ~allHaveOpp(ls) THEN NoFair
    ELSE fairOfMarkets(pStake,
                       [i \in DOMAIN ls |->
                          analyzeTwoSidedMarket(Number(ls[i].americanOdds),
                                                Number(ls[i].opponentOdds))],
                       pm)

\* mutant of evPerBet: the profit of the fair price instead of the quoted one
evPerBet_fairProfit(pTrue, winProfit, stakeAmount) ==
    Sub(Mul(pTrue, Sub(Div(stakeAmount, pTrue), stakeAmount)),
        Mul(Sub(One, pTrue), stakeAmount))

\* const ev = pTrue * winProfit - (1 - pTrue) * stakeAmount
evPerBet(pTrue, winProfit, stakeAmount) ==
    Sub(Mul(pTrue, winProfit), Mul(Sub(One, pTrue), stakeAmount))

NoEv == [ok |-> FALSE]

App_evMetrics(pStake, pm, fm) ==
    IF pStake = Null \/ ~pm.ok \/ ~fm.ok THEN NoEv
    ELSE LET pTrue       == fm.parlayProbFair
             stakeAmount == pStake
             winProfit   == pm.profit
             ev          == evPerBet(pTrue, winProfit, stakeAmount)
         IN  IF \/ ~isFinite(pTrue)
                \/ Le(pTrue, Zero)
                \/ Ge(pTrue, One)
                \/ ~isFinite(winProfit)
                \/ Le(stakeAmount, Zero)
             THEN NoEv
             ELSE [ok |-> TRUE, evPerBet |-> ev,
                   evPct |-> Mul(Div(ev, stakeAmount), Hundred)]

-----------------------------------------------------------------------------
(* Inputs and steps of SpecParlay *)

\* lists of at most this many legs are parsed and priced
MaxParlayLegs == 3

\* (americanOdds, opponentOdds) as typed, complete two-sided legs: -110 vs
\* -110 (hold 1/21), +150 vs +150 (hold -1/5), and -120 vs +120, whose hold
\* is exactly 0
CompleteLegInputs ==
    { << <<"-", "1", "1", "0">>, <<"-", "1", "1", "0">> >>,
      << <<"+", "1", "5", "0">>, <<"+", "1", "5", "0">> >>,
      << <<"-", "1", "2", "0">>, <<"+", "1", "2", "0">> >> }

\* (americanOdds, opponentOdds) as typed: the complete two-sided legs, +100
\* vs +100, legs with no usable opponent odds, legs whose own odds are
\* blank, white space, zero, not a number or not finite, and legs with odds
\* of extreme magnitude
LegInputs ==
    CompleteLegInputs \cup
    { << <<"+", "1", "0", "0">>, <<"+", "1", "0", "0">> >>,
      << <<"-", "1", "1", "0">>, <<>> >>,
      << <<"-", "1", "1", "0">>, <<"a", "b", "c">> >>,
      << <<"-", "1", "1", "0">>, <<"1", "e", "2", "0", "0">> >>,
      << <<>>, <<"-", "1", "1", "0">> >>,
      << <<" ">>, <<"0">> >>,
      << <<"0">>, <<"-", "1", "1", "0">> >>,
      << <<"a", "b", "c">>, <<"-", "1", "1", "0">> >>,
      << <<"I", "n", "f", "i", "n", "i", "t", "y">>, <<"-", "1", "1", "0">> >>,
      << <<"1", "e", "-", "2", "0", "0">>, <<"-", "1", "1", "0">> >>,
      << <<"1", "e", "2", "0", "0">>, <<"-", "1", "1", "0">> >>,
      << <<"0", "x", "9", "6">>, <<"\r", "-", "1", "1", "0", "U+00A0">> >> }

\* the stake as typed
StakeInputs ==
    { <<"1", "0">>, <<"0">>, <<"-", "5">>, <<"a", "b", "c">>,
      <<"1", "e", "2", "0", "0">> }

\* the quoted total decimal handed to computePricingScaleFromBookTotal
QuotedInputs == {Rat(18, 5), Num(4), One, PosInf, NaN}

mkLeg(id, own, opp) ==
    [id |-> id, label |-> <<>>, americanOdds |-> own,
     useOpponent |-> (opp # <<>>), opponentOdds |-> opp]

\* the reorderings of a list
PermsOf(s) ==
    {[i \in 1..Len(s) |-> s[p[i]]] : p \in Permutations(1..Len(s))}

NoParse == [parsedLegs |-> <<>>, validLegs |-> <<>>, allValid |-> FALSE]

\* components/ShareCard.tsx: sortedLegs

\* `Leg ${originalIndex + 1}` (lists of fewer than ten legs)
legName(originalIndex) ==
    <<"L", "e", "g", " ">> \o
    <<CHOOSE c \in Digits : DigitVal(c) = originalIndex + 1>>

\* the mapper of sortedLegs: { ...leg, originalIndex, impliedProb, displayName }
\* (originalIndex counts from 0)
shareCardLeg(leg, originalIndex) ==
    [id |-> leg.id, label |-> leg.label, americanOdds |-> leg.americanOdds,
     useOpponent |-> leg.useOpponent, opponentOdds |-> leg.opponentOdds,
     originalIndex |-> originalIndex,
     impliedProb |-> americanToImpliedProb(Number(leg.americanOdds)),
     displayName |-> IF trim(leg.label) # <<>> THEN trim(leg.label)
                     ELSE legName(originalIndex)]

\* [...legs].map(...), as values
shareCardLegs(ls) == [i \in DOMAIN ls |-> shareCardLeg(ls[i], i - 1)]

\* a.impliedProb: undefined, which == null, for an object without the
\* property
impliedProbOf(a) == IF "impliedProb" \in DOMAIN a THEN a.impliedProb ELSE Null

\* the comparator of the sort: -1, 0 or 1 for a negative, zero or positive
\* result
compareLegs(a, b) ==
    IF impliedProbOf(a) = Null THEN 1
    ELSE IF impliedProbOf(b) = Null THEN -1
    ELSE Sign(Sub(impliedProbOf(a), impliedProbOf(b)))

\* Array.prototype.sort with compareLegs, as the positions the elements are
\* taken from: an element comes before the elements it compares below, and
\* elements that compare equal keep their order (the sort is stable).  Two
\* elements without a probability each compare above the other; their order
\* is the engine's choice.
sortPerms(vals) ==
    {p \in Permutations(DOMAIN vals) :
        \A i, j \in DOMAIN vals : i < j =>
            \/ impliedProbOf(vals[p[i]]) = Null /\ impliedProbOf(vals[p[j]]) = Null
            \/ compareLegs(vals[p[i]], vals[p[j]]) < 0
            \/ compareLegs(vals[p[i]], vals[p[j]]) = 0 /\ p[i] < p[j]}

\* the orders the sort can leave the mapped legs in
sortOutcomes(mapped) ==
    {[i \in DOMAIN mapped |-> mapped[p[i]]] : p \in sortPerms(mapped)}

\* Arrays and objects by reference.  The heap is the sequence of the cells
\* allocated so far, and the address of a cell is its index: an array cell
\* holds the addresses of its elements, an object cell the record of its
\* properties (numbers, strings and booleans are values; the legs and the
\* results have no property that is itself an object).
ArrayCell(items) == [array |-> TRUE, val |-> items]

ObjectCell(props) == [array |-> FALSE, val |-> props]

\* the objects an array holds, in its order
valuesOf(h, arr) == [i \in DOMAIN h[arr].val |-> h[h[arr].val[i]].val]

\* a Leg[] on an empty heap: its legs, then the array of them
heapOf(ls) ==
    [i \in DOMAIN ls |-> ObjectCell(ls[i])] \o <<ArrayCell([i \in DOMAIN ls |-> i])>>

\* [...arr]: a new array with the elements of arr
ArraySpread(h, arr) == Append(h, ArrayCell(h[arr].val))

\* arr.map(f), given the objects f returns for the elements of arr: a new
\* object for every element, then a new array of these objects; the array
\* is the last cell
ArrayMap(h, arr, results) ==
    h \o [i \in DOMAIN h[arr].val |-> ObjectCell(results[i])]
      \o <<ArrayCell([i \in DOMAIN h[arr].val |-> Len(h) + i])>>

\* arr.filter((l) => l.isValid): a new array (the last cell) of the elements
\* kept; the elements themselves are shared with arr
ArrayFilter(h, arr) ==
    LET kept(a) == h[a].val.isValid
    IN  Append(h, ArrayCell(SelectSeq(h[arr].val, kept)))

\* arr.sort(compareLegs): arr itself is reordered, nothing is allocated
ArraySort(h, arr) ==
    {[h EXCEPT ![arr].val = [i \in DOMAIN h[arr].val |-> h[arr].val[p[i]]]] :
        p \in sortPerms(valuesOf(h, arr))}

\* return { ... } builds a new object (the last cell); return null builds
\* nothing
Returned(h, result) == IF result.ok THEN Append(h, ObjectCell(result)) ELSE h

\* legs.map((leg) => ...) of parseLegs, as values
parsedLegs(ls) == [i \in DOMAIN ls |-> parsedLeg(ls[i])]

\* parseLegs on the heap: legs.map(...) builds parsedLegs, parsedLegs.filter
\* (...) builds validLegs
parseLegsAt(h, at) ==
    LET result(h2, pl) ==
            [heap |-> h2, parsedLegs |-> pl, validLegs |-> Len(h2),
             allValid |-> allValid(h2[Len(h2)].val, h[at].val)]
        filtered(h1) == result(ArrayFilter(h1, Len(h1)), Len(h1))
    IN  filtered(ArrayMap(h, at, parsedLegs(valuesOf(h, at))))

\* mutant of ShareCard_sortedLegs: legs.sort(...).map(...), the array given
\* is the one sorted
ShareCard_sortedLegs_inPlace(h, at) ==
    {ArrayMap(h1, at, shareCardLegs(valuesOf(h1, at))) : h1 \in ArraySort(h, at)}

\* const sortedLegs = [...legs].map(...).sort(...): the heaps the expression
\* can leave; sortedLegs is the last cell
ShareCard_sortedLegs(h, at) ==
    LET sorted(h2) == ArraySort(h2, Len(h2))
        mapped(h1) == sorted(ArrayMap(h1, Len(h1), shareCardLegs(valuesOf(h1, Len(h1)))))
    IN  mapped(ArraySpread(h, at))

NoParseAt == [parsedLegs |-> 0, validLegs |-> 0, allValid |-> FALSE]

\* the Leg[] given to parseLegs and to the ShareCard, as it is now
inLegs == IF legsAt = 0 THEN <<>> ELSE valuesOf(heap, legsAt)

\* what parseLegs returned, as it is now
parsed ==
    IF parsedAt.parsedLegs = 0 THEN NoParse
    ELSE [parsedLegs |-> valuesOf(heap, parsedAt.parsedLegs),
          validLegs |-> valuesOf(heap, parsedAt.validLegs),
          allValid |-> parsedAt.allValid]

\* the ShareCard's sortedLegs, as it is now
sortedLegs == IF sortedAt = 0 THEN <<>> ELSE valuesOf(heap, sortedAt)

\* the lists given: of up to two legs of any kind, and longer ones of
\* complete two-sided legs
LegLists ==
    UNION {{[i \in 1..n |-> mkLeg(i, f[i][1], f[i][2])] : f \in [1..n -> LegInputs]} :
              n \in 0..MinInt(2, MaxParlayLegs)}
    \cup
    UNION {{[i \in 1..n |-> mkLeg(i, f[i][1], f[i][2])] : f \in [1..n -> CompleteLegInputs]} :
              n \in 3..MaxParlayLegs}

ParlayIdle ==
    /\ heap = <<>>
    /\ legsAt = 0
    /\ inStake = <<>>
    /\ inQuoted = Zero
    /\ step = "idle"
    /\ parsedAt = NoParseAt
    /\ parsedStake = Null
    /\ metrics = NoMetrics
    /\ metricsPerm = {}
    /\ scale = NoScale
    /\ scalePerm = {}
    /\ parlayMetrics = NoMetrics
    /\ fairParlayMetrics = NoFair
    /\ evMetrics = NoEv
    /\ sortedAt = 0

ParlayInit ==
    /\ \E ls \in LegLists :
          /\ heap = heapOf(ls)
          /\ legsAt = Len(ls) + 1
    /\ inStake \in StakeInputs
    /\ inQuoted \in QuotedInputs
    /\ step = "input"
    /\ parsedAt = NoParseAt
    /\ parsedStake = Null
    /\ metrics = NoMetrics
    /\ metricsPerm = {}
    /\ scale = NoScale
    /\ scalePerm = {}
    /\ parlayMetrics = NoMetrics
    /\ fairParlayMetrics = NoFair
    /\ evMetrics = NoEv
    /\ sortedAt = 0

\* parseLegs(legs) and parseStake(stake)
ParseLegs ==
    /\ step = "input"
    /\ \E r \in {parseLegsAt(heap, legsAt)} :
          /\ heap' = r.heap
          /\ parsedAt' = [parsedLegs |-> r.parsedLegs, validLegs |-> r.validLegs,
                          allValid |-> r.allValid]
    /\ parsedStake' = parseStake(inStake)
    /\ step' = "parsed"
    /\ UNCHANGED <<storeVars, oddsVars, panelVars>>
    /\ UNCHANGED <<legsAt, inStake, inQuoted, metrics, metricsPerm, scale,
                   scalePerm, parlayMetrics, fairParlayMetrics, evMetrics,
                   sortedAt>>

\* computeParlayMetrics on the valid legs, with the stake as a number
\* whatever its sign, and on every reordering of the valid legs
ComputeParlayMetrics ==
    /\ step = "parsed"
    /\ metrics' = computeParlayMetrics(Number(inStake), parsed.validLegs)
    /\ heap' = Returned(heap, metrics')
    /\ metricsPerm' = {computeParlayMetrics(Number(inStake), q) :
                          q \in PermsOf(parsed.validLegs)}
    /\ step' = "priced"
    /\ UNCHANGED <<storeVars, oddsVars, panelVars>>
    /\ UNCHANGED <<legsAt, inStake, inQuoted, parsedAt, parsedStake, scale,
                   scalePerm, parlayMetrics, fairParlayMetrics, evMetrics,
                   sortedAt>>

\* computePricingScaleFromBookTotal on the valid legs and on every
\* reordering of them
ComputePricingScale ==
    /\ step = "priced"
    /\ scale' = computePricingScaleFromBookTotal(parsed.validLegs, inQuoted)
    /\ heap' = Returned(heap, scale')
    /\ scalePerm' = {computePricingScaleFromBookTotal(q, inQuoted) :
                        q \in PermsOf(parsed.validLegs)}
    /\ step' = "scaled"
    /\ UNCHANGED <<storeVars, oddsVars, panelVars>>
    /\ UNCHANGED <<legsAt, inStake, inQuoted, parsedAt, parsedStake, metrics,
                   metricsPerm, parlayMetrics, fairParlayMetrics, evMetrics,
                   sortedAt>>

\* one render of the App: its three memos, each from the ones before it
RenderApp ==
    /\ step = "scaled"
    /\ parlayMetrics' = App_parlayMetrics(parsedStake, parsed.validLegs)
    /\ fairParlayMetrics' =
          App_fairParlayMetrics(parsedStake, inLegs, parsed.validLegs, parlayMetrics')
    /\ evMetrics' = App_evMetrics(parsedStake, parlayMetrics', fairParlayMetrics')
    /\ step' = "rendered"
    /\ UNCHANGED <<storeVars, oddsVars, panelVars>>
    /\ UNCHANGED <<heap, legsAt, inStake, inQuoted, parsedAt, parsedStake, metrics,
                   metricsPerm, scale, scalePerm, sortedAt>>

\* the ShareCard's sortedLegs, from the legs it is given
SortShareCard ==
    /\ step = "rendered"
    /\ heap' \in ShareCard_sortedLegs(heap, legsAt)
    /\ sortedAt' = Len(heap')
    /\ step' = "sorted"
    /\ UNCHANGED <<storeVars, oddsVars, panelVars>>
    /\ UNCHANGED <<legsAt, inStake, inQuoted, parsedAt, parsedStake, metrics,
                   metricsPerm, scale, scalePerm, parlayMetrics,
                   fairParlayMetrics, evMetrics>>

-----------------------------------------------------------------------------
(* components/AnalysisPanel.tsx and the ShareCard it renders *)

\* The strings of the session, as the sequences of their characters
Chars(str) ==
    CASE str = ""       -> <<>>
      [] str = "0"      -> <<"0">>
      [] str = "10"     -> <<"1", "0">>
      [] str = "25"     -> <<"2", "5">>
      [] str = "Infinity" -> <<"I", "n", "f", "i", "n", "i", "t", "y">>
      [] str = "-110"   -> <<"-", "1", "1", "0">>
      [] str = "-120"   -> <<"-", "1", "2", "0">>
      [] str = "+150"   -> <<"+", "1", "5", "0">>
      [] str = "+250"   -> <<"+", "2", "5", "0">>
      [] str = "abc"    -> <<"a", "b", "c">>
      [] str = "A"      -> <<"A">>
      [] str = "1e200"  -> <<"1", "e", "2", "0", "0">>
      [] str = "1e-200" -> <<"1", "e", "-", "2", "0", "0">>

-----------------------------------------------------------------------------
(* Session state: parlayStore.tsx and the App variants *)

Ids(ls) == {ls[i].id : i \in DOMAIN ls}

MaxOf(S) == CHOOSE m \in S : \A x \in S : x <= m

DEFAULT_LEGS ==
    << [id |-> 1, label |-> "", americanOdds |-> "-110",
        useOpponent |-> FALSE, opponentOdds |-> ""],
       [id |-> 2, label |-> "", americanOdds |-> "-110",
        useOpponent |-> FALSE, opponentOdds |-> ""] >>

App_DEFAULT_LEGS ==
    << [id |-> 1, label |-> "", americanOdds |-> "-110", opponentOdds |-> "-110"],
       [id |-> 2, label |-> "", americanOdds |-> "-110", opponentOdds |-> "-110"] >>

DEFAULT_EXAMPLE_legs ==
    << [id |-> 1, label |-> "Ravens ML", americanOdds |-> "-135", opponentOdds |-> ""],
       [id |-> 2, label |-> "Over 45.5", americanOdds |-> "-110", opponentOdds |-> ""],
       [id |-> 3, label |-> "Anytime TD scorer", americanOdds |-> "+180",
        opponentOdds |-> ""] >>

\* mutant of nextId: counts the legs instead of taking the largest id
nextId_byLength(ls) == Len(ls) + 1

nextId(ls) == IF Len(ls) # 0 THEN MaxOf(Ids(ls)) + 1 ELSE 1

App_nextId(ls) == IF Len(ls) # 0 THEN ls[Len(ls)].id + 1 ELSE 1

newLeg(ls) ==
    [id |-> nextId(ls), label |-> "", americanOdds |-> "-110",
     useOpponent |-> FALSE, opponentOdds |-> ""]

App_newLeg(ls) ==
    [id |-> App_nextId(ls), label |-> "", americanOdds |-> "-110",
     opponentOdds |-> "-110"]

\* prev.filter((l) => l.id !== id)
withoutId(prev, id) ==
    LET keep(l) == l.id # id IN SelectSeq(prev, keep)

\* mutant of legsAfterRemove: the length guard is missing
legsAfterRemove_noGuard(prev, id) == withoutId(prev, id)

\* the updater of removeLeg: prev.length <= 1 ? prev : prev.filter(...)
legsAfterRemove(prev, id) ==
    IF Len(prev) <= 1 THEN prev ELSE withoutId(prev, id)

\* prev.filter((l) => !previewRemovedIds.has(l.id))
withoutPreviewed(prev, removed) ==
    LET keep(l) == l.id \notin removed IN SelectSeq(prev, keep)

\* mutant of updatedLeg: the opponent odds outlive the switch
updatedLeg_keepOpponent(leg, id, field, value) ==
    IF leg.id # id THEN leg ELSE [leg EXCEPT ![field] = value]

\* the mapper of updateLeg (store)
updatedLeg(leg, id, field, value) ==
    IF leg.id # id THEN leg
    ELSE IF field = "useOpponent" /\ value = FALSE
         THEN [leg EXCEPT !.useOpponent = FALSE, !.opponentOdds = ""]
         ELSE [leg EXCEPT ![field] = value]

\* the mapper of updateLeg (App)
App_updatedLeg(leg, id, field, value) ==
    IF leg.id = id THEN [leg EXCEPT ![field] = value] ELSE leg

\* Values typed into the fields
FieldEdits ==
    {<<"americanOdds", "+150">>, <<"americanOdds", "">>,
     <<"label", "A">>,
     <<"useOpponent", TRUE>>, <<"useOpponent", FALSE>>,
     <<"opponentOdds", "-120">>}

App_FieldEdits ==
    {<<"americanOdds", "+150">>, <<"americanOdds", "">>,
     <<"label", "A">>, <<"opponentOdds", "">>}

StakeEdits == {"25", "0"}

BookTotalEdits == {"+250", "abc"}

\* ids a handler can be called with: those of the listed legs and one other
CallIds == Ids(legs) \cup {nextId(legs)}

\* history before any handler has run
NoOp == [op |-> "init", id |-> 0, len |-> 0]

\* AnalysisPanel returns before its other hooks when parseStake(stake) is
\* null: a render in which that changes calls another number of hooks than
\* the one before, and React throws.  What becomes of the tree when the stake
\* goes from old to new: the store variant mounts AnalysisPanel, and nothing
\* catches the error.
rootAfterStake(old, new) ==
    IF /\ variant = "store"
       /\ (parseStake(Chars(old)) = Null) # (parseStake(Chars(new)) = Null)
    THEN "crashed" ELSE "mounted"

\* The state after the first render: the useState values, the mount effects
\* still to run.
StoreInit ==
    /\ variant \in {"store", "app"}
    /\ root = "rendered"
    /\ restored = FALSE
    /\ legs = IF variant = "store" THEN DEFAULT_LEGS ELSE App_DEFAULT_LEGS
    /\ previewRemovedIds = {}
    /\ stake = "10"
    /\ bookTotalOdds = ""
    /\ nEdits = 0
    /\ everIds = {1, 2}
    /\ last = NoOp

\* What localStorage.getItem(STORAGE_KEY) can do at mount: return null,
\* throw (storage blocked, or an item that is not JSON), or return a session.
\* A stored leg may lack a numeric id (hasId false).  A stored stake that
\* Number() takes for Infinity passes the test of the load effect.
Storage ==
    LET storedLeg(hasId, id, odds) ==
            [hasId |-> hasId, id |-> id, label |-> "", americanOdds |-> odds,
             useOpponent |-> FALSE, opponentOdds |-> ""]
    IN  { [kind |-> "none", stake |-> "", bookTotalOdds |-> "", legs |-> <<>>],
          [kind |-> "throws", stake |-> "", bookTotalOdds |-> "", legs |-> <<>>],
          [kind |-> "item", stake |-> "25", bookTotalOdds |-> "+250",
           legs |-> <<storedLeg(TRUE, 2, "+150"), storedLeg(FALSE, 0, "-110")>>],
          [kind |-> "item", stake |-> "Infinity", bookTotalOdds |-> "",
           legs |-> <<storedLeg(TRUE, 1, "")>>] }

\* if (parsed.stake && Number(parsed.stake) > 0) setStake(parsed.stake)
loadedStake(cur, raw) ==
    IF raw.kind = "item" /\ raw.stake # "" /\ Gt(Number(Chars(raw.stake)), Zero)
    THEN raw.stake ELSE cur

\* parsed.legs.map(...).filter((l) => l.americanOdds.trim() !== ""); the
\* mapper gives a leg its id when that is a number, otherwise its position
\* (counted from 1)
cleaned(raw) ==
    LET idOf(l, idx) == IF l.hasId THEN l.id ELSE idx
        cleanedLeg(l, idx) ==
            IF variant = "store"
            THEN [id |-> idOf(l, idx), label |-> l.label,
                  americanOdds |-> l.americanOdds, useOpponent |-> l.useOpponent,
                  opponentOdds |-> l.opponentOdds]
            ELSE [id |-> idOf(l, idx), label |-> l.label,
                  americanOdds |-> l.americanOdds, opponentOdds |-> l.opponentOdds]
        keep(l) == trim(Chars(l.americanOdds)) # <<>>
    IN  SelectSeq([i \in DOMAIN raw.legs |-> cleanedLeg(raw.legs[i], i)], keep)

\* The mount effects: the load from localStorage (and, in the App, the
\* first-run example).  The store sets its stake and its book total odds
\* from a stored item, the App its stake.
Mount(raw) ==
    LET firstRun   == variant = "app" /\ raw.kind = "none"
        legsLoaded == raw.kind = "item" /\ Len(cleaned(raw)) > 0
    IN  /\ root = "rendered"
        /\ stake' = IF firstRun THEN "25" ELSE loadedStake(stake, raw)
        /\ bookTotalOdds' = IF variant = "store" /\ raw.kind = "item"
                            THEN raw.bookTotalOdds ELSE bookTotalOdds
        /\ legs' = IF firstRun THEN DEFAULT_EXAMPLE_legs
                   ELSE IF legsLoaded THEN cleaned(raw) ELSE legs
        /\ restored' = legsLoaded
        /\ root' = rootAfterStake(stake, stake')
        /\ everIds' = everIds \cup Ids(legs')
        /\ last' = [op |-> "mount", id |-> 0, len |-> Len(legs)]
        /\ UNCHANGED <<oddsVars, parlayVars, panelVars>>
        /\ UNCHANGED <<variant, previewRemovedIds, nEdits>>


addLeg ==
    /\ root = "mounted"
    /\ variant = "store"
    /\ Len(legs) < MaxLegs
    /\ nextId(legs) <= MaxId
    /\ legs' = Append(legs, newLeg(legs))
    /\ everIds' = everIds \cup {newLeg(legs).id}
    /\ last' = [op |-> "addLeg", id |-> newLeg(legs).id, len |-> Len(legs)]
    /\ UNCHANGED <<oddsVars, parlayVars, panelVars>>
    /\ UNCHANGED <<variant, root, restored, previewRemovedIds, stake,
                   bookTotalOdds, nEdits>>

\* mutant of previewAfterRemove: the removed leg's id stays excluded
previewAfterRemove_keep(prev, id) == prev

\* the setPreviewRemovedIds updater of removeLeg: next.delete(id)
previewAfterRemove(prev, id) == prev \ {id}

removeLeg(id) ==
    /\ root = "mounted"
    /\ variant = "store"
    /\ legs' = legsAfterRemove(legs, id)
    /\ previewRemovedIds' = previewAfterRemove(previewRemovedIds, id)
    /\ last' = [op |-> "removeLeg", id |-> id, len |-> Len(legs)]
    /\ UNCHANGED <<oddsVars, parlayVars, panelVars>>
    /\ UNCHANGED <<variant, root, restored, stake, bookTotalOdds, nEdits,
                   everIds>>

updateLeg(id, field, value) ==
    /\ root = "mounted"
    /\ variant = "store"
    /\ nEdits < MaxEdits
    /\ nEdits' = nEdits + 1
    /\ legs' = [i \in DOMAIN legs |-> updatedLeg(legs[i], id, field, value)]
    /\ last' = [op |-> "updateLeg", id |-> id, len |-> Len(legs),
                field |-> field, value |-> value]
    /\ UNCHANGED <<oddsVars, parlayVars, panelVars>>
    /\ UNCHANGED <<variant, root, restored, previewRemovedIds, stake,
                   bookTotalOdds, everIds>>

\* the updater of togglePreviewRemove: if (next.has(id)) next.delete(id);
\* else next.add(id)
toggled(prev, id) == IF id \in prev THEN prev \ {id} ELSE prev \cup {id}

togglePreviewRemove(id) ==
    /\ root = "mounted"
    /\ variant = "store"
    /\ previewRemovedIds' = toggled(previewRemovedIds, id)
    /\ last' = [op |-> "togglePreviewRemove", id |-> id, len |-> Len(legs)]
    /\ UNCHANGED <<oddsVars, parlayVars, panelVars>>
    /\ UNCHANGED <<variant, root, restored, legs, stake, bookTotalOdds,
                   nEdits, everIds>>

clearPreview ==
    /\ root = "mounted"
    /\ variant = "store"
    /\ previewRemovedIds' = {}
    /\ last' = [op |-> "clearPreview", id |-> 0, len |-> Len(legs)]
    /\ UNCHANGED <<oddsVars, parlayVars, panelVars>>
    /\ UNCHANGED <<variant, root, restored, legs, stake, bookTotalOdds,
                   nEdits, everIds>>

applyPreviewRemovals ==
    /\ root = "mounted"
    /\ variant = "store"
    /\ previewRemovedIds # {}
    /\ legs' = withoutPreviewed(legs, previewRemovedIds)
    /\ previewRemovedIds' = {}
    /\ last' = [op |-> "applyPreviewRemovals", id |-> 0, len |-> Len(legs)]
    /\ UNCHANGED <<oddsVars, parlayVars, panelVars>>
    /\ UNCHANGED <<variant, root, restored, stake, bookTotalOdds, nEdits,
                   everIds>>

setStake(v) ==
    /\ root = "mounted"
    /\ nEdits < MaxEdits
    /\ nEdits' = nEdits + 1
    /\ stake' = v
    /\ root' = rootAfterStake(stake, v)
    /\ last' = [op |-> "setStake", id |-> 0, len |-> Len(legs)]
    /\ UNCHANGED <<oddsVars, parlayVars, panelVars>>
    /\ UNCHANGED <<variant, restored, legs, previewRemovedIds, bookTotalOdds, everIds>>

setBookTotalOdds(v) ==
    /\ root = "mounted"
    /\ variant = "store"
    /\ nEdits < MaxEdits
    /\ nEdits' = nEdits + 1
    /\ bookTotalOdds' = v
    /\ last' = [op |-> "setBookTotalOdds", id |-> 0, len |-> Len(legs)]
    /\ UNCHANGED <<oddsVars, parlayVars, panelVars>>
    /\ UNCHANGED <<variant, root, restored, legs, previewRemovedIds, stake,
                   everIds>>

App_addLeg ==
    /\ root = "mounted"
    /\ variant = "app"
    /\ Len(legs) < MaxLegs
    /\ App_nextId(legs) <= MaxId
    /\ legs' = Append(legs, App_newLeg(legs))
    /\ everIds' = everIds \cup {App_newLeg(legs).id}
    /\ last' = [op |-> "addLeg", id |-> App_newLeg(legs).id, len |-> Len(legs)]
    /\ UNCHANGED <<oddsVars, parlayVars, panelVars>>
    /\ UNCHANGED <<variant, root, restored, previewRemovedIds, stake,
                   bookTotalOdds, nEdits>>

App_removeLeg(id) ==
    /\ root = "mounted"
    /\ variant = "app"
    /\ legs' = legsAfterRemove(legs, id)
    /\ last' = [op |-> "removeLeg", id |-> id, len |-> Len(legs)]
    /\ UNCHANGED <<oddsVars, parlayVars, panelVars>>
    /\ UNCHANGED <<variant, root, restored, previewRemovedIds, stake,
                   bookTotalOdds, nEdits, everIds>>

App_updateLeg(id, field, value) ==
    /\ root = "mounted"
    /\ variant = "app"
    /\ nEdits < MaxEdits
    /\ nEdits' = nEdits + 1
    /\ legs' = [i \in DOMAIN legs |-> App_updatedLeg(legs[i], id, field, value)]
    /\ last' = [op |-> "updateLeg", id |-> id, len |-> Len(legs),
                field |-> field, value |-> value]
    /\ UNCHANGED <<oddsVars, parlayVars, panelVars>>
    /\ UNCHANGED <<variant, root, restored, previewRemovedIds, stake,
                   bookTotalOdds, everIds>>

App_loadExampleParlay ==
    /\ root = "mounted"
    /\ variant = "app"
    /\ stake' = "25"
    /\ legs' = DEFAULT_EXAMPLE_legs
    /\ everIds' = everIds \cup Ids(DEFAULT_EXAMPLE_legs)
    /\ last' = [op |-> "loadExampleParlay", id |-> 0, len |-> Len(legs)]
    /\ UNCHANGED <<oddsVars, parlayVars, panelVars>>
    /\ UNCHANGED <<variant, root, restored, previewRemovedIds, bookTotalOdds,
                   nEdits>>

StoreIdle ==
    /\ variant = "store"
    /\ root = "rendered"
    /\ restored = FALSE
    /\ legs = DEFAULT_LEGS
    /\ previewRemovedIds = {}
    /\ stake = "10"
    /\ bookTotalOdds = ""
    /\ nEdits = 0
    /\ everIds = {1, 2}
    /\ last = NoOp

charLeg(leg) ==
    [id |-> leg.id, label |-> Chars(leg.label),
     americanOdds |-> Chars(leg.americanOdds),
     useOpponent |-> leg.useOpponent,
     opponentOdds |-> Chars(leg.opponentOdds)]

charLegs(ls) == [i \in DOMAIN ls |-> charLeg(ls[i])]

\* const parsedStake = useMemo(() => parseStake(stake), [stake])
Panel_parsedStake == parseStake(Chars(stake))

\* mutant of previewLegs: the excluded legs are not taken out
previewLegs_all == legs

\* CURRENT VIEW legs (excluded removed live)
previewLegs ==
    IF previewRemovedIds = {} THEN legs
    ELSE withoutPreviewed(legs, previewRemovedIds)

\* validLegs of parseLegs(legs) and of parseLegs(previewLegs)
allValidLegs == parseLegs(charLegs(legs)).validLegs

previewValidLegs == parseLegs(charLegs(previewLegs)).validLegs

\* the panel renders its outcome, its list of legs and its share slip: it
\* returns early without a positive stake or without any valid leg
panelShown ==
    root # "crashed" /\ Panel_parsedStake # Null /\ Len(allValidLegs) # 0

\* "Best odds": computeParlayMetrics(parsedStake, previewValidLegs)
baselineParlay ==
    IF Panel_parsedStake = Null THEN NoMetrics
    ELSE computeParlayMetrics(Panel_parsedStake, previewValidLegs)

\* const isPreviewing = previewRemovedIds.size > 0
isPreviewing == previewRemovedIds # {}

\* the count in the label "(excluded N)": previewRemovedIds.size
excludedCount == Cardinality(previewRemovedIds)

\* SlipPanel.tsx: liveLegs and parlay (the component is not mounted by App)
SlipPanel_liveLegs ==
    IF previewRemovedIds = {} THEN legs
    ELSE withoutPreviewed(legs, previewRemovedIds)

SlipPanel_parlay ==
    IF Panel_parsedStake = Null THEN NoMetrics
    ELSE computeParlayMetrics(Panel_parsedStake,
                              parseLegs(charLegs(SlipPanel_liveLegs)).validLegs)

\* Book total odds -> decimal (optional)
bookTotalDecimalOf(bookStr) ==
    LET quoted(n, dec) ==
            IF trim(bookStr) = <<>> THEN Null
            ELSE IF ~isFinite(n) \/ isZero(n) \/ dec = Null \/ Le(dec, One) THEN Null
            ELSE dec
        converted(n) == quoted(n, americanToDecimal(n))
    IN  converted(Number(bookStr))

bookTotalDecimal == bookTotalDecimalOf(Chars(bookTotalOdds))

pricingScaleOf(validLegs, btd) ==
    IF btd = Null THEN NoScale
    ELSE computePricingScaleFromBookTotal(validLegs, btd)

pricingScale == pricingScaleOf(previewValidLegs, bookTotalDecimal)

effectiveIncludeScaleOnSlip == includeScaleOnSlip /\ pricingScale.ok

effectiveIncludeKeyOnSlip == includeKeyOnSlip /\ effectiveIncludeScaleOnSlip

NoPayout == [ok |-> FALSE]

\* bookTotalDecimal ?? baselineParlay.combinedDecimal
decimalPaid(btd, parlay) == IF btd # Null THEN btd ELSE parlay.combinedDecimal

\* the payout memo of the panel
payoutOf(parlay, btd, pStake) ==
    IF ~parlay.ok THEN NoPayout
    ELSE IF ~isFinite(decimalPaid(btd, parlay)) \/ Le(decimalPaid(btd, parlay), One)
         THEN NoPayout
    ELSE [ok |-> TRUE,
          potentialReturn |-> Mul(pStake, decimalPaid(btd, parlay)),
          profit |-> Sub(Mul(pStake, decimalPaid(btd, parlay)), pStake),
          decimalUsed |-> decimalPaid(btd, parlay)]

payout == payoutOf(baselineParlay, bookTotalDecimal, Panel_parsedStake)

\* ShareCard: hasBook
hasBook(btd) == btd # Null /\ isFinite(btd) /\ Gt(btd, One)

\* mutant of usedDecimal: the slip always pays the independent price
usedDecimal_independent(btd, parlay) == parlay.combinedDecimal

\* ShareCard: hasBook ? bookTotalDecimal : parlay.combinedDecimal
usedDecimal(btd, parlay) == IF hasBook(btd) THEN btd ELSE parlay.combinedDecimal

\* ShareCard: payout
ShareCard_payout(stakeNum, parlay, btd) ==
    IF ~parlay.ok THEN NoPayout
    ELSE [ok |-> TRUE,
          potentialReturn |-> Mul(stakeNum, usedDecimal(btd, parlay)),
          profit |-> Sub(Mul(stakeNum, usedDecimal(btd, parlay)), stakeNum)]

\* ShareCard: showScale, with pricingAdjustmentPct = pricingScale?.adjustmentPct
\* ?? null
showScale(showPricingScaleOnSlip, ps) ==
    /\ showPricingScaleOnSlip
    /\ ps.ok
    /\ isFinite(ps.adjustmentPct)

\* ShareCard: the key is rendered inside the block of the scale
showKey(showPricingScaleOnSlip, showScaleKeyOnSlip, ps) ==
    showScale(showPricingScaleOnSlip, ps) /\ showScaleKeyOnSlip

\* the payout, the scale and the key of the slip the panel renders
slipPayout == ShareCard_payout(Panel_parsedStake, baselineParlay, bookTotalDecimal)

slipShowsScale == showScale(effectiveIncludeScaleOnSlip, pricingScale)

slipShowsKey ==
    showKey(effectiveIncludeScaleOnSlip, effectiveIncludeKeyOnSlip, pricingScale)

\* mutant of keyAfterScale: unchecking the scale leaves the key as it is
keyAfterScale_kept(next, key) == key

\* if (!next) setIncludeKeyOnSlip(false)
keyAfterScale(next, key) == IF ~next THEN FALSE ELSE key

\* onChange of the "Include scale on slip" box (disabled without a pricing
\* scale): the box reports the opposite of what it shows
setIncludeScaleOnSlip ==
    /\ variant = "store"
    /\ panelShown
    /\ pricingScale.ok
    /\ includeScaleOnSlip' = ~effectiveIncludeScaleOnSlip
    /\ includeKeyOnSlip' = keyAfterScale(includeScaleOnSlip', includeKeyOnSlip)
    /\ UNCHANGED <<storeVars, oddsVars, parlayVars>>

\* onChange of the "Include key on slip" box (disabled unless the scale is
\* included)
setIncludeKeyOnSlip ==
    /\ variant = "store"
    /\ panelShown
    /\ pricingScale.ok
    /\ effectiveIncludeScaleOnSlip
    /\ includeKeyOnSlip' = ~effectiveIncludeKeyOnSlip
    /\ UNCHANGED <<storeVars, oddsVars, parlayVars>>
    /\ UNCHANGED includeScaleOnSlip

\* (americanOdds, useOpponent, opponentOdds) of the legs of a session
PanelLegLists ==
    { << <<"-110", FALSE, "">>, <<"+150", TRUE, "-120">> >>,
      << <<"abc", FALSE, "">>, <<"-110", FALSE, "">> >>,
      << <<"1e200", FALSE, "">>, <<"1e200", FALSE, "">> >>,
      << <<"1e-200", FALSE, "">>, <<"1e-200", FALSE, "">> >>,
      << <<"-110", FALSE, "">> >> }

PanelStakes == {"10", "25"}

PanelBookTotals == {"", "+250", "1e-200", "1e200"}

sessionLeg(id, t) ==
    [id |-> id, label |-> "", americanOdds |-> t[1], useOpponent |-> t[2],
     opponentOdds |-> t[3]]

PanelIdle ==
    /\ includeScaleOnSlip = FALSE
    /\ includeKeyOnSlip = FALSE

\* a mounted session of the store as typed in or loaded, both boxes unchecked
PanelInit ==
    /\ variant = "store"
    /\ root = "mounted"
    /\ restored = FALSE
    /\ \E ts \in PanelLegLists : legs = [i \in DOMAIN ts |-> sessionLeg(i, ts[i])]
    /\ previewRemovedIds = {}
    /\ stake \in PanelStakes
    /\ bookTotalOdds \in PanelBookTotals
    /\ nEdits = 0
    /\ everIds = Ids(legs)
    /\ last = NoOp
    /\ PanelIdle

-----------------------------------------------------------------------------
(* Specifications *)

Init == StoreInit /\ OddsIdle /\ ParlayIdle /\ PanelIdle

Next ==
    \/ \E raw \in Storage : Mount(raw)
    \/ addLeg
    \/ \E id \in CallIds : removeLeg(id)
    \/ \E id \in CallIds : \E e \in FieldEdits : updateLeg(id, e[1], e[2])
    \/ \E id \in Ids(legs) : togglePreviewRemove(id)
    \/ clearPreview
    \/ applyPreviewRemovals
    \/ \E v \in StakeEdits : setStake(v)
    \/ \E v \in BookTotalEdits : setBookTotalOdds(v)
    \/ App_addLeg
    \/ \E id \in CallIds : App_removeLeg(id)
    \/ \E id \in CallIds : \E e \in App_FieldEdits : App_updateLeg(id, e[1], e[2])
    \/ App_loadExampleParlay

Spec == Init /\ [][Next]_vars

OddsNext == Convert \/ Analyze

InitOdds == OddsInit /\ StoreIdle /\ ParlayIdle /\ PanelIdle

SpecOdds == InitOdds /\ [][OddsNext]_vars

ParlayNext ==
    \/ ParseLegs
    \/ ComputeParlayMetrics
    \/ ComputePricingScale
    \/ RenderApp
    \/ SortShareCard

InitParlay == ParlayInit /\ StoreIdle /\ OddsIdle /\ PanelIdle

SpecParlay == InitParlay /\ [][ParlayNext]_vars

\* the edits of a leg explored under SpecPanel: the odds are blanked or changed
PanelFieldEdits == {<<"americanOdds", "">>, <<"americanOdds", "+150">>}

PanelNext ==
    \/ \E v \in StakeEdits : setStake(v)
    \/ \E id \in Ids(legs) : \E e \in PanelFieldEdits : updateLeg(id, e[1], e[2])
    \/ \E id \in Ids(legs) : togglePreviewRemove(id)
    \/ clearPreview
    \/ \E v \in BookTotalEdits : setBookTotalOdds(v)
    \/ setIncludeScaleOnSlip
    \/ setIncludeKeyOnSlip

InitPanel == PanelInit /\ OddsIdle /\ ParlayIdle

SpecPanel == InitPanel /\ [][PanelNext]_vars

LegsInit ==
    /\ \/ PanelInit /\ stake = "10" /\ bookTotalOdds = ""
       \/ StoreInit /\ variant = "app" /\ PanelIdle
    /\ OddsIdle
    /\ ParlayIdle

LegsNext ==
    \/ \E raw \in Storage : Mount(raw)
    \/ addLeg
    \/ \E id \in CallIds : \E e \in FieldEdits : updateLeg(id, e[1], e[2])
    \/ App_addLeg
    \/ \E id \in CallIds : \E e \in App_FieldEdits : App_updateLeg(id, e[1], e[2])

SpecLegs == LegsInit /\ [][LegsNext]_vars

-----------------------------------------------------------------------------
(* Claims about the session state (checked under Spec) *)

\* C1: the leg list never becomes empty: in every reachable state of the
\* store and of the App variant the list holds at least one leg.
C1_LegsNeverEmpty == Len(legs) >= 1

\* C2: a leg id is never reused: the id addLeg hands out was never in the
\* list before, the removed legs included.
C2_IdNeverReused ==
    [][(last'.op = "addLeg" /\ legs' # legs) => last'.id \notin everIds]_vars

\* the largest id of the legs that were listed before the last one was added
MaxIdBeforeLast == MaxOf({legs[i].id : i \in 1..(Len(legs) - 1)})

\* C3: in a session that started from the default legs (not from a list
\* restored from localStorage) leg ids are unique positive integers, and the
\* leg addLeg appended got the largest id of the other legs plus one, or 1
\* when the list was empty.
C3_IdsUniquePositive ==
    ~restored =>
        /\ \A i, j \in DOMAIN legs : i # j => legs[i].id # legs[j].id
        /\ \A i \in DOMAIN legs : legs[i].id \in Nat /\ legs[i].id >= 1
        /\ last.op = "addLeg" =>
             /\ Len(legs) = last.len + 1
             /\ legs[Len(legs)].id = last.id
             /\ last.id = IF last.len = 0 THEN 1 ELSE MaxIdBeforeLast + 1

\* addLeg has just run in the store on a list from which leg 1 was removed
C3_Witness ==
    /\ variant = "store"
    /\ last.op = "addLeg"
    /\ Len(legs) >= 2
    /\ 1 \notin Ids(legs)

\* s without its entries of the given id, the others in their order
RECURSIVE DropId(_, _)
DropId(s, id) ==
    IF s = <<>> THEN <<>>
    ELSE (IF Head(s).id = id THEN <<>> ELSE <<Head(s)>>) \o DropId(Tail(s), id)

\* C4: removeLeg(id) leaves a one-leg list as it is, and takes exactly the
\* legs with that id out of a longer list, the others keeping their order.
C4_RemoveLeg ==
    [][last'.op = "removeLeg" =>
          /\ Len(legs) = 1 => legs' = legs
          /\ Len(legs) >= 2 => legs' = DropId(legs, last'.id)]_vars

\* removeLeg has just been called with the id of the only leg, which is kept
C4_Witness ==
    /\ last.op = "removeLeg"
    /\ last.len = 1
    /\ Len(legs) = 1
    /\ last.id \in Ids(legs)


\* C28: previewRemovedIds only ever holds ids of legs currently in the list,
\* in every state reached by addLeg, removeLeg, updateLeg, togglePreviewRemove
\* of a listed leg, clearPreview and applyPreviewRemovals (the load of a
\* stored list at mount is not one of them); so the displayed excluded count
\* is the number of legs the current view leaves out.
C28_PreviewIdsListed ==
    variant = "store" =>
        /\ previewRemovedIds \subseteq Ids(legs)
        /\ ~restored => excludedCount = Len(legs) - Len(previewLegs)

\* a leg has been removed from a list of three while another leg is
\* excluded: one id is left in previewRemovedIds, it is listed, and the
\* current view leaves out one leg of two
C28_Witness ==
    /\ variant = "store"
    /\ last.op = "removeLeg"
    /\ last.len = 3
    /\ last.id \notin Ids(legs)
    /\ Len(legs) = 2
    /\ isPreviewing
    /\ excludedCount = 1
    /\ Len(previewLegs) = 1

-----------------------------------------------------------------------------
(* Claims about utils/odds.ts (checked under SpecOdds) *)

FiniteNonzero(x) == isFinite(x) /\ ~isZero(x)

\* the same value (0 and -0 are one value)
SameNumber(x, y) == x = y \/ (isZero(x) /\ isZero(y))

Millionth == MkFin(1, 1, -6)

TenMillion == MkFin(1, 1, 7)

\* of ordinary magnitude: between 1e-6 and 1e7 in absolute value
Ordinary(x) ==
    FiniteNonzero(x) /\ Ge(Abs(x), Millionth) /\ Lt(Abs(x), TenMillion)

\* 2^-40, about one part in 10^12
Tolerance == [k |-> "fin", s |-> 1, m |-> <<0, 0, 0, 128>>, q |-> -92]

Largest(x, y) == IF Ge(x, y) THEN x ELSE y

\* x and y differ by no more than one part in 10^12 of the larger of |x|,
\* |y| and size (the size of the terms they were computed from); values
\* that are not finite numbers are near only when they are the same
NearAt(x, y, size) ==
    IF isFinite(x) /\ isFinite(y)
    THEN Le(Abs(Sub(x, y)), Mul(Tolerance, Largest(Largest(Abs(x), Abs(y)), size)))
    ELSE x = y

\* the same number up to the rounding of a few operations on doubles
Near(x, y) == NearAt(x, y, Zero)

\* C5: the conversions return a value exactly for finite nonzero odds, and
\* then the decimal is > 1 and the implied probability is strictly in (0,1).
C5_ConversionRange ==
    phase # "input" =>
        /\ (decimalOut # Null) <=> FiniteNonzero(yourOdds)
        /\ (probOut # Null) <=> FiniteNonzero(yourOdds)
        /\ FiniteNonzero(yourOdds) =>
              /\ Gt(decimalOut, One)
              /\ Gt(probOut, Zero)
              /\ Lt(probOut, One)

\* 1 + o/100 (o > 0) or 1 + 100/|o| (o < 0), in double arithmetic
ExpectedDecimal(o) ==
    IF Gt(o, Zero) THEN Add(One, Div(o, Hundred))
    ELSE Add(One, Div(Hundred, Abs(o)))

\* 100/(o+100) (o > 0) or |o|/(|o|+100) (o < 0), in double arithmetic
ExpectedProb(o) ==
    IF Gt(o, Zero) THEN Div(Hundred, Add(o, Hundred))
    ELSE Div(Abs(o), Add(Abs(o), Hundred))

\* C6: for finite nonzero odds the decimal is 1 + o/100 (o > 0) or
\* 1 + 100/|o| (o < 0) and the probability 100/(o+100) or |o|/(|o|+100),
\* each evaluated in doubles; -110 gives the doubles nearest to 21/11 and
\* 11/21.
C6_ConversionFormulas ==
    (phase # "input" /\ FiniteNonzero(yourOdds)) =>
        /\ decimalOut = ExpectedDecimal(yourOdds)
        /\ probOut = ExpectedProb(yourOdds)
        /\ yourOdds = Num(-110) =>
              (decimalOut = Rat(21, 11) /\ probOut = Rat(11, 21))

\* -110 has been converted
C6_Witness ==
    /\ phase = "converted"
    /\ yourOdds = Num(-110)
    /\ decimalOut = Rat(21, 11)

\* C7 as stated: for every finite nonzero odds the implied probability
\* equals 1 / decimal.
C7_RoundTrip_Original ==
    (phase # "input" /\ FiniteNonzero(yourOdds)) =>
        probOut = Div(One, decimalOut)

\* C7 as amended: for every finite nonzero odds the implied probability
\* equals 1 / decimal up to the rounding of the doubles (+150: both are 0.4;
\* -150: 0.6 against 0.6000000000000001).
C7_RoundTrip ==
    (phase # "input" /\ FiniteNonzero(yourOdds)) =>
        /\ Near(probOut, Div(One, decimalOut))
        /\ yourOdds = Num(150) => probOut = Div(One, decimalOut)

\* -150 has been converted: probability 0.6, and 1 / decimal is the next
\* double
C7_Witness ==
    /\ phase = "converted"
    /\ yourOdds = Num(-150)
    /\ probOut = Rat(3, 5)
    /\ probOut # Div(One, decimalOut)
    /\ Near(probOut, Div(One, decimalOut))

\* what the claims say of a returned tuple m for your side's decimal and
\* probability
TupleRelations(m, bookDecimal, pYou) ==
    /\ m.pYou = pYou
    /\ m.overround = Add(m.pYou, m.pOpp)
    /\ m.hold = Sub(m.overround, One)
    /\ m.pNoVigYou = Div(m.pYou, m.overround)
    /\ m.fairDecimal = Div(One, m.pNoVigYou)
    /\ m.houseEdgePct = Sub(One, Div(bookDecimal, m.fairDecimal))

\* scenario B: the probabilities and the fair decimal are the doubles
\* nearest to the stated values; hold and houseEdgePct, which are differences
\* of doubles, are within rounding of 1/21 and 1/22
ScenarioB(m) ==
    /\ m.ok
    /\ m.pYou = Rat(11, 21)
    /\ m.pOpp = Rat(11, 21)
    /\ m.overround = Rat(22, 21)
    /\ m.pNoVigYou = Rat(1, 2)
    /\ m.fairDecimal = Num(2)
    /\ Near(m.hold, Rat(1, 21))
    /\ Near(m.houseEdgePct, Rat(1, 22))

\* C8 as stated: failure exactly when a side's odds is zero or non-finite,
\* otherwise the full tuple.
C8_AllOrNothing_Original ==
    phase = "analyzed" =>
        /\ market.ok <=> (FiniteNonzero(yourOdds) /\ FiniteNonzero(oppOdds))
        /\ market.ok => TupleRelations(market, decimalOut, probOut)
        /\ (yourOdds = Num(-110) /\ oppOdds = Num(-110)) => ScenarioB(market)

\* C8 as amended: failure when a side's odds is zero or non-finite; a full
\* tuple for odds of ordinary magnitude; whatever is returned is the failure
\* value or a full tuple that satisfies the relations, and -110 vs -110
\* gives scenario B.
C8_AllOrNothing ==
    phase = "analyzed" =>
        /\ ~(FiniteNonzero(yourOdds) /\ FiniteNonzero(oppOdds)) => ~market.ok
        /\ (Ordinary(yourOdds) /\ Ordinary(oppOdds)) => market.ok
        /\ ~market.ok => market = NoMarket
        /\ market.ok => TupleRelations(market, decimalOut, probOut)
        /\ market.ok => DOMAIN market = {"ok", "pYou", "pOpp", "overround", "hold",
                                         "pNoVigYou", "fairDecimal", "houseEdgePct"}
        /\ (yourOdds = Num(-110) /\ oppOdds = Num(-110)) => ScenarioB(market)

\* -110 vs -110 has been analyzed
C8_Witness ==
    /\ phase = "analyzed"
    /\ yourOdds = Num(-110)
    /\ oppOdds = Num(-110)
    /\ market.ok
    /\ market.fairDecimal = Num(2)
    /\ Near(market.houseEdgePct, Rat(1, 22))

Mirrored(m1, m2) ==
    /\ m1.overround = m2.overround
    /\ m1.hold = m2.hold
    /\ m1.pYou = m2.pOpp
    /\ m1.pOpp = m2.pYou

Symmetric(m1, m2) ==
    /\ Mirrored(m1, m2)
    /\ Near(Add(m1.pNoVigYou, m2.pNoVigYou), One)

\* C9 as stated: for every pair of finite nonzero odds the two analyses
\* exist and mirror each other, with no-vig probabilities that sum to
\* exactly 1.
C9_Symmetry_Original ==
    (phase = "analyzed" /\ FiniteNonzero(yourOdds) /\ FiniteNonzero(oppOdds)) =>
        /\ market.ok
        /\ marketSwap.ok
        /\ Mirrored(market, marketSwap)
        /\ Add(market.pNoVigYou, marketSwap.pNoVigYou) = One

\* C9 as amended: whenever both analyses return a result (as they do for
\* odds of ordinary magnitude) they have the same overround and hold, swapped
\* pYou and pOpp, and no-vig probabilities that sum to 1 up to the rounding
\* of the doubles.
C9_Symmetry ==
    phase = "analyzed" =>
        /\ (Ordinary(yourOdds) /\ Ordinary(oppOdds)) => (market.ok /\ marketSwap.ok)
        /\ (market.ok /\ marketSwap.ok) => Symmetric(market, marketSwap)

\* -110 vs +150 has been analyzed from both sides
C9_Witness ==
    /\ phase = "analyzed"
    /\ yourOdds = Num(-110)
    /\ oppOdds = Num(150)
    /\ market.ok
    /\ marketSwap.ok
    /\ market.pNoVigYou # marketSwap.pNoVigYou

\* C10 as stated: every pair of finite nonzero odds gets a result, whose
\* hold is overround - 1, negative when pYou + pOpp < 1.
C10_HoldUnclamped_Original ==
    (phase = "analyzed" /\ FiniteNonzero(yourOdds) /\ FiniteNonzero(oppOdds)) =>
        /\ market.ok
        /\ market.hold = Sub(market.overround, One)
        /\ Lt(market.overround, One) => Lt(market.hold, Zero)

\* C10 as amended: every returned hold is overround - 1, negative when
\* pYou + pOpp < 1, and odds of ordinary magnitude always get a result,
\* whatever the sign of the hold.
C10_HoldUnclamped ==
    phase = "analyzed" =>
        /\ market.ok =>
              /\ market.hold = Sub(Add(probOut, americanToImpliedProb(oppOdds)), One)
              /\ Lt(Add(market.pYou, market.pOpp), One) => Lt(market.hold, Zero)
        /\ (Ordinary(yourOdds) /\ Ordinary(oppOdds)) => market.ok
        /\ (yourOdds = Num(150) /\ oppOdds = Num(150)) =>
              Near(market.hold, Rat(-1, 5))

\* +150 vs +150 has been analyzed: the hold is 0.8 - 1, within rounding of
\* -1/5
C10_Witness ==
    /\ phase = "analyzed"
    /\ yourOdds = Num(150)
    /\ oppOdds = Num(150)
    /\ market.ok
    /\ market.overround = Rat(4, 5)
    /\ Lt(market.hold, Zero)
    /\ Near(market.hold, Rat(-1, 5))

\* C25 as stated: for every pair of finite nonzero odds the analyses from
\* the two sides exist and have the same houseEdgePct, which is hold /
\* overround and so has the sign of hold.
C25_HouseEdgeSides_Original ==
    (phase = "analyzed" /\ FiniteNonzero(yourOdds) /\ FiniteNonzero(oppOdds)) =>
        /\ market.ok
        /\ marketSwap.ok
        /\ market.houseEdgePct = marketSwap.houseEdgePct
        /\ market.houseEdgePct = Div(market.hold, market.overround)
        /\ Sign(market.houseEdgePct) = Sign(market.hold)

\* no more than a rounding error away from zero, for a quantity computed
\* from terms of size 1
Negligible(x) == NearAt(x, Zero, One)

\* C25 as amended: every result has houseEdgePct = hold / overround up to
\* the rounding of the doubles, positive or negative when hold is and within
\* a rounding error of zero when hold is zero (-150 vs +150: hold 0,
\* houseEdgePct 1.1e-16); whenever the analyses from the two sides both
\* return a result (as they do for odds of ordinary magnitude) their
\* houseEdgePct is the same up to rounding.
C25_HouseEdgeSides ==
    phase = "analyzed" =>
        /\ (Ordinary(yourOdds) /\ Ordinary(oppOdds)) => (market.ok /\ marketSwap.ok)
        /\ market.ok =>
              /\ NearAt(market.houseEdgePct, Div(market.hold, market.overround), One)
              /\ ~Negligible(market.hold) =>
                    Sign(market.houseEdgePct) = Sign(market.hold)
              /\ isZero(market.hold) => Negligible(market.houseEdgePct)
        /\ (market.ok /\ marketSwap.ok) =>
              NearAt(market.houseEdgePct, marketSwap.houseEdgePct, One)

\* -150 vs +100 has been analyzed from both sides: the hold is 1/10 and the
\* house edge 1/11 from either side, each up to rounding and not the same
\* double from the two sides; the no-vig probabilities differ
C25_Witness ==
    /\ phase = "analyzed"
    /\ yourOdds = Num(-150)
    /\ oppOdds = Num(100)
    /\ market.ok
    /\ marketSwap.ok
    /\ Near(market.hold, Rat(1, 10))
    /\ Near(market.houseEdgePct, Rat(1, 11))
    /\ Near(marketSwap.houseEdgePct, Rat(1, 11))
    /\ market.houseEdgePct # marketSwap.houseEdgePct
    /\ market.pNoVigYou = Rat(6, 11)
    /\ marketSwap.pNoVigYou = Rat(5, 11)

\* an integer-valued number (every double of 1e200 and more is one)
isInteger(x) == isFinite(x) /\ round(x) = x

\* what decimalToAmerican returned for decimalIn: null exactly for a decimal
\* that is not finite or <= 1, otherwise a nonzero integer of absolute value
\* >= 100, positive for a decimal >= 2 and negative for a decimal < 2
AmericanOutShape(largest) ==
    /\ (americanOut = Null) <=> (~isFinite(decimalIn) \/ Le(decimalIn, One))
    /\ (americanOut # Null /\ Le(decimalIn, largest)) =>
          /\ isInteger(americanOut)
          /\ ~isZero(americanOut)
          /\ Ge(Abs(americanOut), Hundred)
          /\ Ge(decimalIn, Num(2)) => Gt(americanOut, Zero)
          /\ Lt(decimalIn, Num(2)) => Lt(americanOut, Zero)

\* integer American odds o with o >= 100 or o <= -101
RoundTripOdds(o) == isInteger(o) /\ (Ge(o, Hundred) \/ Le(o, Num(-101)))

Million == MkFin(1, 1, 6)

\* C30 as stated: decimalToAmerican returns null exactly when the decimal is
\* not finite or <= 1, otherwise a nonzero integer of absolute value >= 100
\* with the sign given by decimal >= 2; and for every integer o >= 100 or
\* o <= -101, decimalToAmerican(americanToDecimal(o)) = o.
C30_DecimalToAmerican_Original ==
    phase \in {"converted", "analyzed"} =>
        /\ AmericanOutShape(PosInf)
        /\ RoundTripOdds(yourOdds) => americanBack = yourOdds

LargestDecimal == MkFin(1, 1, 300)

\* C30, amended: the same for decimals up to 1e300 (above 1.8e306 the
\* American odds overflow to Infinity), with the round trip for integer odds
\* up to a million in absolute value.
C30_DecimalToAmerican ==
    phase \in {"converted", "analyzed"} =>
        /\ AmericanOutShape(LargestDecimal)
        /\ (RoundTripOdds(yourOdds) /\ Le(Abs(yourOdds), Million)) =>
              americanBack = yourOdds

\* -150 has been converted to a double next to 5/3 and back to -150, and the
\* decimal 17/8 (112.5 before rounding) to +113
C30_Witness ==
    /\ phase = "converted"
    /\ yourOdds = Num(-150)
    /\ Near(decimalOut, Rat(5, 3))
    /\ americanBack = Num(-150)
    /\ decimalIn = Rat(17, 8)
    /\ americanOut = Num(113)

-----------------------------------------------------------------------------
(* Claims about lib/parlayMath.ts and the App's memos (checked under        *)
(* SpecParlay)                                                              *)

\* the entries of s that are marked valid, in their order
RECURSIVE ValidSubseq(_)
ValidSubseq(s) ==
    IF s = <<>> THEN <<>>
    ELSE (IF Head(s).isValid THEN <<Head(s)>> ELSE <<>>) \o ValidSubseq(Tail(s))

\* C11: parseLegs returns parsedLegs with the length, order and ids of the
\* input (invalid entries included); validLegs is the subsequence of the
\* parsedLegs marked valid, in the same order; allValid holds exactly when
\* the input is not empty and every leg is valid.
C11_ParseLegsShape ==
    step # "input" =>
        /\ Len(parsed.parsedLegs) = Len(inLegs)
        /\ \A i \in DOMAIN inLegs :
              /\ parsed.parsedLegs[i].id = inLegs[i].id
              /\ parsed.parsedLegs[i].americanOdds = inLegs[i].americanOdds
              /\ parsed.parsedLegs[i].opponentOdds = inLegs[i].opponentOdds
        /\ parsed.validLegs = ValidSubseq(parsed.parsedLegs)
        /\ parsed.allValid <=>
              (Len(inLegs) > 0 /\ \A i \in DOMAIN inLegs : parsed.parsedLegs[i].isValid)

\* an invalid leg followed by a valid one has been parsed: both are in
\* parsedLegs, only the second in validLegs
C11_Witness ==
    /\ step = "parsed"
    /\ Len(parsed.parsedLegs) = 2
    /\ ~parsed.parsedLegs[1].isValid
    /\ Len(parsed.validLegs) = 1
    /\ parsed.validLegs[1].id = 2
    /\ ~parsed.allValid

\* C12: a leg whose odds string is blank, white space, "0" or not numeric is
\* invalid, has decimal = null and impliedProb = null and is not in
\* validLegs; a leg is valid exactly when its string is not blank and parses
\* to a finite nonzero number, and then decimal and impliedProb are not null.
C12_InvalidLegs ==
    step # "input" =>
        \A i \in DOMAIN parsed.parsedLegs :
            LET l == parsed.parsedLegs[i]
            IN  /\ l.oddsNum = Number(inLegs[i].americanOdds)
                /\ (\/ trim(l.americanOdds) = <<>>
                    \/ l.americanOdds = <<"0">>
                    \/ isNaN(l.oddsNum)) => ~l.isValid
                /\ ~l.isValid =>
                      /\ l.decimal = Null
                      /\ l.impliedProb = Null
                      /\ \A j \in DOMAIN parsed.validLegs : parsed.validLegs[j].id # l.id
                /\ l.isValid <=>
                      (trim(l.americanOdds) # <<>> /\ isFinite(l.oddsNum) /\ ~isZero(l.oddsNum))
                /\ l.isValid => (l.decimal # Null /\ l.impliedProb # Null)
                /\ l.americanOdds \in {<<>>, <<" ">>, <<"0">>, <<"a", "b", "c">>}
                      => ~l.isValid

\* "abc" and "-110" have been parsed: the first is invalid with null values,
\* the second valid with decimal 21/11
C12_Witness ==
    /\ step = "parsed"
    /\ Len(parsed.parsedLegs) = 2
    /\ parsed.parsedLegs[1].americanOdds = <<"a", "b", "c">>
    /\ ~parsed.parsedLegs[1].isValid
    /\ parsed.parsedLegs[1].decimal = Null
    /\ parsed.parsedLegs[2].isValid
    /\ parsed.parsedLegs[2].decimal = Rat(21, 11)

\* the product of the legs' decimals, taken leg by leg from 1 in the order
\* of the list
RECURSIVE DecimalProduct(_)
DecimalProduct(ls) ==
    IF ls = <<>> THEN One
    ELSE Mul(DecimalProduct(SubSeq(ls, 1, Len(ls) - 1)), ls[Len(ls)].decimal)

\* C13: computeParlayMetrics returns no result when the list is empty or the
\* product of the legs' decimals is non-finite or <= 1; otherwise
\* combinedDecimal is that product, parlayImpliedProb = 1 / combinedDecimal,
\* potentialReturn = stake * combinedDecimal and profit = potentialReturn -
\* stake, each evaluated in doubles; two -110 legs at stake 10 give 441/121,
\* 4410/121 and 3200/121 up to the rounding of the doubles.
C13_ParlayMetrics ==
    step \notin {"input", "parsed"} =>
        LET vl   == parsed.validLegs
            prod == DecimalProduct(vl)
            st   == Number(inStake)
        IN  /\ metrics.ok <=> (Len(vl) > 0 /\ isFinite(prod) /\ Gt(prod, One))
            /\ ~metrics.ok => metrics = NoMetrics
            /\ metrics.ok =>
                  /\ metrics.combinedDecimal = prod
                  /\ metrics.parlayImpliedProb = Div(One, prod)
                  /\ metrics.potentialReturn = Mul(st, prod)
                  /\ metrics.profit = Sub(Mul(st, prod), st)
            /\ (/\ Len(vl) = 2
                /\ vl[1].oddsNum = Num(-110)
                /\ vl[2].oddsNum = Num(-110)
                /\ st = Num(10)) =>
                  /\ metrics.ok
                  /\ Near(metrics.combinedDecimal, Rat(441, 121))
                  /\ Near(metrics.potentialReturn, Rat(4410, 121))
                  /\ Near(metrics.profit, Rat(3200, 121))

\* two -110 legs at stake 10 have been priced
C13_Witness ==
    /\ step = "priced"
    /\ Len(parsed.validLegs) = 2
    /\ Number(inStake) = Num(10)
    /\ metrics.ok
    /\ metrics.combinedDecimal = Mul(Rat(21, 11), Rat(21, 11))
    /\ Near(metrics.profit, Rat(3200, 121))

\* C14: a non-positive stake yields no result: computeParlayMetrics returns
\* no metrics for any stake <= 0, and parseStake returns null for every
\* string that is not a finite number greater than 0.
C14_NonPositiveStake ==
    /\ step # "input" =>
          (parsedStake = Null <=>
              ~(isFinite(Number(inStake)) /\ Gt(Number(inStake), Zero)))
    /\ step \notin {"input", "parsed"} =>
          (Le(Number(inStake), Zero) => ~metrics.ok)

\* the same result of computeParlayMetrics up to the rounding of the doubles
SameMetrics(a, b) ==
    /\ a.ok = b.ok
    /\ a.ok =>
          /\ Near(a.combinedDecimal, b.combinedDecimal)
          /\ Near(a.parlayImpliedProb, b.parlayImpliedProb)
          /\ Near(a.potentialReturn, b.potentialReturn)
          /\ NearAt(a.profit, b.profit, a.potentialReturn)

\* the same result of computePricingScaleFromBookTotal up to the rounding of
\* the doubles
SameScale(a, b) ==
    /\ a.ok = b.ok
    /\ a.ok =>
          /\ Near(a.independentDecimal, b.independentDecimal)
          /\ a.bookTotalDecimal = b.bookTotalDecimal
          /\ NearAt(a.adjustmentPct, b.adjustmentPct, Hundred)

\* C15 as stated: aggregation does not depend on the order of the legs:
\* every reordering of the valid legs gives the same result of
\* computeParlayMetrics (combinedDecimal, parlayImpliedProb, potentialReturn,
\* profit) and of computePricingScaleFromBookTotal (independentDecimal,
\* adjustmentPct).
C15_OrderIndependent_Original ==
    /\ step \notin {"input", "parsed"} => metricsPerm = {metrics}
    /\ step \in {"scaled", "rendered"} => scalePerm = {scale}

\* C15 as amended: every reordering of the valid legs gives the same results
\* up to the rounding of the doubles (a result from every order or from
\* none), and the same doubles for one or two legs.
C15_OrderIndependent ==
    /\ step \notin {"input", "parsed"} =>
          /\ metrics \in metricsPerm
          /\ \A r \in metricsPerm : SameMetrics(r, metrics)
          /\ Len(parsed.validLegs) <= 2 => metricsPerm = {metrics}
    /\ step \in {"scaled", "rendered"} =>
          /\ scale \in scalePerm
          /\ \A r \in scalePerm : SameScale(r, scale)
          /\ Len(parsed.validLegs) <= 2 => scalePerm = {scale}

\* the legs -110, -110 and -120 have been priced and scaled: the product of
\* their decimals is 6.6818181818181825 in the order given and another
\* double, 6.681818181818183, in another order
C15_Witness ==
    /\ step = "scaled"
    /\ Len(parsed.validLegs) = 3
    /\ parsed.validLegs[1].oddsNum = Num(-110)
    /\ parsed.validLegs[2].oddsNum = Num(-110)
    /\ parsed.validLegs[3].oddsNum = Num(-120)
    /\ metrics.ok
    /\ scale.ok
    /\ \E r \in metricsPerm : r.combinedDecimal # metrics.combinedDecimal
    /\ \A r \in metricsPerm : Near(r.combinedDecimal, Rat(147, 22))

\* C16: expected value is produced only when parlayMetrics and
\* fairParlayMetrics both exist, the fair probability is strictly between 0
\* and 1, the profit is finite and the stake is > 0; then ev = pTrue * profit
\* - (1 - pTrue) * stake with the profit of the quoted combined odds, and
\* evPct = (ev / stake) * 100.
C16_ExpectedValue ==
    step = "rendered" =>
        /\ evMetrics.ok <=>
              /\ parsedStake # Null
              /\ parlayMetrics.ok
              /\ fairParlayMetrics.ok
              /\ Gt(fairParlayMetrics.parlayProbFair, Zero)
              /\ Lt(fairParlayMetrics.parlayProbFair, One)
              /\ isFinite(parlayMetrics.profit)
              /\ Gt(parsedStake, Zero)
        /\ ~evMetrics.ok => evMetrics = NoEv
        /\ evMetrics.ok =>
              LET pTrue  == fairParlayMetrics.parlayProbFair
                  quoted == Sub(Mul(parsedStake, parlayMetrics.combinedDecimal),
                                parsedStake)
              IN  /\ evMetrics.evPerBet =
                        Sub(Mul(pTrue, quoted), Mul(Sub(One, pTrue), parsedStake))
                  /\ evMetrics.evPct =
                        Mul(Div(evMetrics.evPerBet, parsedStake), Hundred)

\* two legs -110 vs -110 at stake 10 have been rendered: the fair
\* probability is 1/4 and, up to rounding, the profit 3200/121,
\* ev = -215/242, evPct = -1075/121
C16_Witness ==
    /\ step = "rendered"
    /\ evMetrics.ok
    /\ fairParlayMetrics.parlayProbFair = Rat(1, 4)
    /\ Near(parlayMetrics.profit, Rat(3200, 121))
    /\ Near(evMetrics.evPerBet, Rat(-215, 242))
    /\ Near(evMetrics.evPct, Rat(-1075, 121))

\* the opponent odds string is blank, zero or not numeric
OppUnusable(leg) ==
    \/ trim(leg.opponentOdds) = <<>>
    \/ isZero(Number(leg.opponentOdds))
    \/ isNaN(Number(leg.opponentOdds))

\* the leg's own odds string is blank or is not a finite nonzero number
OwnInvalid(leg) ==
    \/ trim(leg.americanOdds) = <<>>
    \/ ~isFinite(Number(leg.americanOdds))
    \/ isZero(Number(leg.americanOdds))

\* the leg's pNoVigYou; NaN where the leg has no market
NoVigOf(leg) ==
    LET m == analyzeTwoSidedMarket(Number(leg.americanOdds), Number(leg.opponentOdds))
    IN  IF m.ok THEN m.pNoVigYou ELSE NaN

\* the product of the legs' pNoVigYou, taken leg by leg from 1 in the order
\* of the list
RECURSIVE NoVigProduct(_)
NoVigProduct(ls) ==
    IF ls = <<>> THEN One
    ELSE Mul(NoVigProduct(SubSeq(ls, 1, Len(ls) - 1)), NoVigOf(ls[Len(ls)]))

\* C17: the fair parlay computation fails as a whole when a leg lacks usable
\* two-sided data: with at least one leg whose opponent odds string is
\* blank, zero or not numeric, or whose own odds are invalid,
\* fairParlayMetrics and evMetrics are absent whatever the other legs are;
\* when present, parlayProbFair is the product of every leg's pNoVigYou.
C17_FairAllOrNothing ==
    step = "rendered" =>
        /\ (\E i \in DOMAIN inLegs : OppUnusable(inLegs[i]) \/ OwnInvalid(inLegs[i])) =>
              (~fairParlayMetrics.ok /\ ~evMetrics.ok)
        /\ ~fairParlayMetrics.ok => fairParlayMetrics = NoFair
        /\ fairParlayMetrics.ok =>
              fairParlayMetrics.parlayProbFair = NoVigProduct(inLegs)

\* a complete leg and a leg with valid own odds and a blank opponent field
\* have been rendered at a positive stake: parlayMetrics exists,
\* fairParlayMetrics and evMetrics do not
C17_Witness ==
    /\ step = "rendered"
    /\ Len(inLegs) = 2
    /\ ~OppUnusable(inLegs[1])
    /\ inLegs[2].opponentOdds = <<>>
    /\ parsed.allValid
    /\ parlayMetrics.ok
    /\ ~fairParlayMetrics.ok
    /\ ~evMetrics.ok

\* C18: the edge of the whole parlay is edgePct = 1 - combinedDecimal /
\* fairDecimal with fairDecimal = 1 / (product of the legs' pNoVigYou); two
\* legs -110 vs -110 give fair probability 1/4, fair decimal 4 and
\* edgePct = 1 - (441/121)/4 = 43/484 up to the rounding of the doubles.
C18_ParlayEdge ==
    (step = "rendered" /\ fairParlayMetrics.ok /\ parlayMetrics.ok) =>
        /\ fairParlayMetrics.fairDecimal = Div(One, NoVigProduct(inLegs))
        /\ fairParlayMetrics.edgePct =
              Sub(One, Div(parlayMetrics.combinedDecimal, fairParlayMetrics.fairDecimal))
        /\ (/\ Len(inLegs) = 2
            /\ \A i \in DOMAIN inLegs :
                  /\ Number(inLegs[i].americanOdds) = Num(-110)
                  /\ Number(inLegs[i].opponentOdds) = Num(-110)) =>
              /\ fairParlayMetrics.parlayProbFair = Rat(1, 4)
              /\ fairParlayMetrics.fairDecimal = Num(4)
              /\ Near(fairParlayMetrics.edgePct, Rat(43, 484))

\* two legs -110 vs -110 have been rendered: the edge is 43/484
C18_Witness ==
    /\ step = "rendered"
    /\ Len(inLegs) = 2
    /\ fairParlayMetrics.ok
    /\ Near(parlayMetrics.combinedDecimal, Rat(441, 121))
    /\ fairParlayMetrics.fairDecimal = Num(4)
    /\ Near(fairParlayMetrics.edgePct, Rat(43, 484))

\* C19: computePricingScaleFromBookTotal has no failure path beyond its
\* input guards: it returns a result exactly when there are at least 2 valid
\* legs and the quoted decimal is finite and > 1.
C19_ScaleGuards ==
    step \in {"scaled", "rendered"} =>
        (scale.ok <=>
            (Len(parsed.validLegs) >= 2 /\ isFinite(inQuoted) /\ Gt(inQuoted, One)))

\* what C20 says of a result: independentDecimal is the product of the legs'
\* decimals and adjustmentPct = (quotedDecimal / independentDecimal - 1) *
\* 100, evaluated in doubles: 0 when the two are equal, negative exactly
\* when the quoted decimal is the smaller
AdjustmentFormula ==
    /\ scale.independentDecimal = DecimalProduct(parsed.validLegs)
    /\ scale.bookTotalDecimal = inQuoted
    /\ scale.adjustmentPct =
          Mul(Sub(Div(inQuoted, scale.independentDecimal), One), Hundred)
    /\ inQuoted = scale.independentDecimal => isZero(scale.adjustmentPct)
    /\ Lt(scale.adjustmentPct, Zero) <=> Lt(inQuoted, scale.independentDecimal)

\* C20 as stated: every result satisfies the formula, and adjustmentPct = -10
\* for quoted 3.6 against independent 4.0.
C20_Adjustment_Original ==
    (step \in {"scaled", "rendered"} /\ scale.ok) =>
        /\ AdjustmentFormula
        /\ (inQuoted = Rat(18, 5) /\ scale.independentDecimal = Num(4)) =>
              scale.adjustmentPct = Num(-10)

\* C20 as amended: every result satisfies the formula, and adjustmentPct is
\* -10 up to the rounding of the doubles (-9.999999999999998) for quoted 3.6
\* against independent 4.0.
C20_Adjustment ==
    (step \in {"scaled", "rendered"} /\ scale.ok) =>
        /\ AdjustmentFormula
        /\ (inQuoted = Rat(18, 5) /\ scale.independentDecimal = Num(4)) =>
              Near(scale.adjustmentPct, Num(-10))

\* two +100 legs (independent decimal 4) and the quoted decimal 18/5 have
\* been scaled: the adjustment is not -10 but the double next to it
C20_Witness ==
    /\ step = "scaled"
    /\ scale.ok
    /\ inQuoted = Rat(18, 5)
    /\ scale.independentDecimal = Num(4)
    /\ Lt(scale.adjustmentPct, Zero)
    /\ scale.adjustmentPct # Num(-10)
    /\ Near(scale.adjustmentPct, Num(-10))

\* the cells of the heap that make up the caller's list: the array and the
\* legs in it
CallerCells == {legsAt} \cup {heap[legsAt].val[i] : i \in DOMAIN heap[legsAt].val}

\* the cells an array result is made of: the array and its elements
ResultCells(h, arr) == {arr} \cup {h[arr].val[i] : i \in DOMAIN h[arr].val}

\* C21: the core never changes what it is given: no step of parseLegs,
\* computeParlayMetrics, computePricingScaleFromBookTotal or the ShareCard's
\* sort changes the caller's list of legs (its order and every field of
\* every leg) or any other object that existed before the step, and what a
\* step returns is freshly built: the arrays parsedLegs, validLegs and
\* sortedLegs with the objects in them, and the result objects of the two
\* computations, are cells that did not exist before the step.
C21_NoMutation ==
    [][step # "idle" =>
          /\ legsAt' = legsAt
          /\ Len(heap') >= Len(heap)
          /\ \A a \in CallerCells : heap'[a] = heap[a]
          /\ \A a \in DOMAIN heap : heap'[a] = heap[a]
          /\ step = "input" =>
                \A a \in ResultCells(heap', parsedAt'.parsedLegs)
                         \cup ResultCells(heap', parsedAt'.validLegs) : a > Len(heap)
          /\ (step = "parsed" /\ metrics'.ok) =>
                (Len(heap') = Len(heap) + 1 /\ heap'[Len(heap')].val = metrics')
          /\ (step = "priced" /\ scale'.ok) =>
                (Len(heap') = Len(heap) + 1 /\ heap'[Len(heap')].val = scale')
          /\ step = "rendered" =>
                \A a \in ResultCells(heap', sortedAt') : a > Len(heap)]_vars

\* the ShareCard has sorted -110 and +150: the second leg comes first in
\* sortedLegs, a new array of new objects, and the list it was given still
\* has the first leg first
C21_Witness ==
    /\ step = "sorted"
    /\ Len(inLegs) = 2
    /\ Len(sortedLegs) = 2
    /\ sortedLegs[1].id = 2
    /\ sortedLegs[1].originalIndex = 1
    /\ inLegs[1].id = 1
    /\ parsed.allValid
    /\ sortedAt > parsedAt.validLegs
    /\ \A i \in 1..2 : heap[sortedAt].val[i] \notin CallerCells


\* the factors the stake is scaled by
StakeFactors == {Num(2), Rat(1, 2), Num(25)}

\* the App's evMetrics for the legs of the state at the stake st
EvAtStake(st) ==
    App_evMetrics(st,
                  App_parlayMetrics(st, parsed.validLegs),
                  App_fairParlayMetrics(st, inLegs, parsed.validLegs,
                                        App_parlayMetrics(st, parsed.validLegs)))

\* C24 as stated: whenever the App produces both, evPct = -100 * edgePct;
\* the expected value is positive exactly when the quoted combined decimal
\* exceeds the fair decimal; and at k times the stake (k > 0) the expected
\* value is k times as large and evPct is the same.
C24_EvIsEdge_Original ==
    (step = "rendered" /\ evMetrics.ok) =>
        /\ fairParlayMetrics.edgePct # Null
        /\ evMetrics.evPct = Mul(Num(-100), fairParlayMetrics.edgePct)
        /\ Gt(evMetrics.evPerBet, Zero) <=>
              Gt(parlayMetrics.combinedDecimal, fairParlayMetrics.fairDecimal)
        /\ \A k \in StakeFactors :
              /\ EvAtStake(Mul(k, parsedStake)).ok
              /\ EvAtStake(Mul(k, parsedStake)).evPerBet = Mul(k, evMetrics.evPerBet)
              /\ EvAtStake(Mul(k, parsedStake)).evPct = evMetrics.evPct

\* C24 as amended: the same with each equality up to the rounding of the
\* doubles; the expected value is positive exactly when the quoted decimal
\* exceeds the fair decimal by more than a rounding error, and within a
\* rounding error of 0, of either sign, when the two decimals are within
\* rounding of each other (-120 vs +120 at stake 10: both decimals are
\* 1.8333333333333335 and the expected value is 8.9e-16).
C24_EvIsEdge ==
    (step = "rendered" /\ evMetrics.ok) =>
        /\ fairParlayMetrics.edgePct # Null
        /\ NearAt(evMetrics.evPct, Mul(Num(-100), fairParlayMetrics.edgePct), Hundred)
        /\ ~Near(parlayMetrics.combinedDecimal, fairParlayMetrics.fairDecimal) =>
              (Gt(evMetrics.evPerBet, Zero) <=>
                  Gt(parlayMetrics.combinedDecimal, fairParlayMetrics.fairDecimal))
        /\ Near(parlayMetrics.combinedDecimal, fairParlayMetrics.fairDecimal) =>
              NearAt(evMetrics.evPerBet, Zero, parsedStake)
        /\ \A k \in StakeFactors :
              /\ EvAtStake(Mul(k, parsedStake)).ok
              /\ NearAt(EvAtStake(Mul(k, parsedStake)).evPerBet,
                        Mul(k, evMetrics.evPerBet), Mul(k, parsedStake))
              /\ NearAt(EvAtStake(Mul(k, parsedStake)).evPct, evMetrics.evPct, Hundred)

\* two legs +150 vs +150 at stake 10 have been rendered: the quoted decimal
\* 25/4 exceeds the fair decimal 4, the edge is -9/16, the expected value
\* 45/8 and evPct 225/4
C24_Witness ==
    /\ step = "rendered"
    /\ evMetrics.ok
    /\ parlayMetrics.combinedDecimal = Rat(25, 4)
    /\ fairParlayMetrics.fairDecimal = Num(4)
    /\ fairParlayMetrics.edgePct = Rat(-9, 16)
    /\ Near(evMetrics.evPerBet, Rat(45, 8))
    /\ Near(evMetrics.evPct, Rat(225, 4))

\* the two-sided market of leg i of the rendered parlay
LegMarket(i) ==
    analyzeTwoSidedMarket(Number(inLegs[i].americanOdds),
                          Number(inLegs[i].opponentOdds))

\* every leg of the rendered parlay has a market and its hold is >= 0
NoNegativeHold ==
    \A i \in DOMAIN inLegs : LegMarket(i).ok /\ Ge(LegMarket(i).hold, Zero)

\* C26 as stated: if every leg's two-sided market has hold >= 0 then,
\* whenever the expected value is produced, edgePct >= 0 and ev <= 0, and
\* either is 0 only when every leg's hold is 0.
C26_NoFreeEdge_Original ==
    (step = "rendered" /\ evMetrics.ok /\ NoNegativeHold) =>
        /\ Ge(fairParlayMetrics.edgePct, Zero)
        /\ Le(evMetrics.evPerBet, Zero)
        /\ (isZero(fairParlayMetrics.edgePct) \/ isZero(evMetrics.evPerBet)) =>
              \A i \in DOMAIN inLegs : isZero(LegMarket(i).hold)

\* C26 as amended: under the same premise edgePct >= 0 and ev <= 0 up to a
\* rounding error; with a hold that is more than a rounding error above 0
\* the edge is > 0 and the expected value < 0, each by more than a rounding
\* error; with every hold 0 both are within a rounding error of 0, of either
\* sign (-120 vs +120 at stake 10: hold 0, edgePct 0, ev 8.9e-16).
C26_NoFreeEdge ==
    (step = "rendered" /\ evMetrics.ok /\ NoNegativeHold) =>
        /\ Ge(fairParlayMetrics.edgePct, Zero) \/ Negligible(fairParlayMetrics.edgePct)
        /\ Le(evMetrics.evPerBet, Zero) \/ NearAt(evMetrics.evPerBet, Zero, parsedStake)
        /\ (\E i \in DOMAIN inLegs : ~Negligible(LegMarket(i).hold)) =>
              /\ Gt(fairParlayMetrics.edgePct, Zero)
              /\ ~Negligible(fairParlayMetrics.edgePct)
              /\ Lt(evMetrics.evPerBet, Zero)
              /\ ~NearAt(evMetrics.evPerBet, Zero, parsedStake)
        /\ (\A i \in DOMAIN inLegs : isZero(LegMarket(i).hold)) =>
              /\ Negligible(fairParlayMetrics.edgePct)
              /\ NearAt(evMetrics.evPerBet, Zero, parsedStake)

\* a leg -110 vs -110 (hold 1/21) and a leg +100 vs +100 (hold 0) at stake 10
\* have been rendered: the edge is 1/22 and the expected value -5/11, up to
\* rounding
C26_Witness ==
    /\ step = "rendered"
    /\ evMetrics.ok
    /\ NoNegativeHold
    /\ \E i \in DOMAIN inLegs : isZero(LegMarket(i).hold)
    /\ \E i \in DOMAIN inLegs : Near(LegMarket(i).hold, Rat(1, 21))
    /\ Near(fairParlayMetrics.edgePct, Rat(1, 22))
    /\ Near(evMetrics.evPerBet, Rat(-5, 11))

---------
(* Claims about the handlers of the legs (checked under SpecLegs)           *)

\* what updateLeg(id, field, value) is to leave in field f of a leg of that
\* id: the value in the named field, the empty string in opponentOdds when
\* useOpponent is set to false, and what was there in every other field
FieldAfterUpdate(leg, f, field, value) ==
    IF f = field THEN value
    ELSE IF f = "opponentOdds" /\ field = "useOpponent" /\ value = FALSE THEN ""
    ELSE leg[f]

\* C22: addLeg appends exactly one leg, with odds "-110", and leaves the
\* legs already listed as they are; updateLeg(id, field, value) keeps the
\* length and order of the list and every leg of another id, and in the
\* legs of that id changes the named field only, except that setting
\* useOpponent to false also empties opponentOdds.
C22_LegLifecycle ==
    [][/\ last'.op = "addLeg" =>
             /\ Len(legs') = Len(legs) + 1
             /\ SubSeq(legs', 1, Len(legs)) = legs
             /\ legs'[Len(legs')].americanOdds = "-110"
       /\ last'.op = "updateLeg" =>
             /\ Len(legs') = Len(legs)
             /\ \A i \in DOMAIN legs :
                   /\ legs'[i].id = legs[i].id
                   /\ legs[i].id # last'.id => legs'[i] = legs[i]
                   /\ legs[i].id = last'.id =>
                         /\ DOMAIN legs'[i] = DOMAIN legs[i]
                         /\ \A f \in DOMAIN legs[i] :
                               legs'[i][f] =
                                 FieldAfterUpdate(legs[i], f, last'.field, last'.value)]_vars

\* updateLeg has just set useOpponent to false on the second of two legs,
\* which had opponent odds: they are now empty, the first leg is as it was
C22_Witness ==
    /\ variant = "store"
    /\ last.op = "updateLeg"
    /\ last.field = "useOpponent"
    /\ last.value = FALSE
    /\ last.id = 2
    /\ Len(legs) = 2
    /\ legs[1].americanOdds = "-110"
    /\ legs[2].americanOdds = "+150"
    /\ legs[2].opponentOdds = ""
    /\ ~legs[2].useOpponent


-----------------------------------------------------------------------------
(* Claims about the AnalysisPanel and its slip (checked under SpecPanel)    *)

\* the decimal the book total odds string converts to
BookDecimal == americanToDecimal(Number(Chars(bookTotalOdds)))

\* the book total odds string is not blank and converts to a decimal > 1
BookQuoted ==
    /\ trim(Chars(bookTotalOdds)) # <<>>
    /\ BookDecimal # Null
    /\ Gt(BookDecimal, One)

\* the price paid: the book's where it is quoted, the independent one
\* otherwise
PricePaid == IF BookQuoted THEN BookDecimal ELSE baselineParlay.combinedDecimal

\* C23: whenever a baseline parlay exists, the payout of the panel uses the
\* book-quoted decimal if the book total odds string is not blank and
\* converts to a decimal > 1, and the independent combinedDecimal otherwise;
\* the payout of the ShareCard is the same return and profit; without a
\* baseline parlay neither produces a payout.
C23_PayoutPricePaid ==
    LET agree(baseline, panel, slip) ==
            /\ ~baseline.ok => (panel = NoPayout /\ slip = NoPayout)
            /\ baseline.ok =>
                  LET paid(stakeNum, price) ==
                          /\ panel.ok
                          /\ panel.decimalUsed = price
                          /\ panel.potentialReturn = Mul(stakeNum, price)
                          /\ panel.profit = Sub(Mul(stakeNum, price), stakeNum)
                          /\ slip.ok
                          /\ slip.potentialReturn = panel.potentialReturn
                          /\ slip.profit = panel.profit
                  IN  paid(Panel_parsedStake, PricePaid)
    IN  agree(baselineParlay, payout, slipPayout)

\* -110 and +150 at stake 10 with the book total "+250": the independent
\* decimal is 105/22 (up to rounding), the price paid 7/2, return 35 and
\* profit 25 on the panel and on the slip
C23_Witness ==
    /\ baselineParlay.ok
    /\ Near(baselineParlay.combinedDecimal, Rat(105, 22))
    /\ bookTotalOdds = "+250"
    /\ payout.ok
    /\ payout.decimalUsed = Rat(7, 2)
    /\ slipPayout.potentialReturn = Num(35)
    /\ slipPayout.profit = Num(25)



\* the valid legs of the whole list whose id is not excluded
ValidNotExcluded ==
    LET kept(l) == l.id \notin previewRemovedIds
    IN  SelectSeq(allValidLegs, kept)

\* the outcome of the panel is that of the valid legs that are not excluded
OutcomeOverKeptLegs ==
    /\ previewValidLegs = ValidNotExcluded
    /\ baselineParlay = IF Panel_parsedStake = Null THEN NoMetrics
                        ELSE computeParlayMetrics(Panel_parsedStake, ValidNotExcluded)
    /\ pricingScale = pricingScaleOf(ValidNotExcluded, bookTotalDecimal)
    /\ SlipPanel_parlay = baselineParlay

\* C27: preview exclusion is non-destructive: togglePreviewRemove and
\* clearPreview never change legs, stake or bookTotalOdds; toggling the same
\* id a second time restores the previous previewRemovedIds; and the outcome
\* (baseline parlay and pricing scale) is computed over exactly the valid
\* legs whose id is not in previewRemovedIds.
C27_PreviewNonDestructive ==
    /\ []OutcomeOverKeptLegs
    /\ [][/\ last'.op \in {"togglePreviewRemove", "clearPreview"} =>
                /\ legs' = legs
                /\ stake' = stake
                /\ bookTotalOdds' = bookTotalOdds
          /\ (/\ last'.op = "togglePreviewRemove"
              /\ last' # last \/ previewRemovedIds' # previewRemovedIds) =>
                /\ previewRemovedIds' # previewRemovedIds
                /\ toggled(previewRemovedIds', last'.id) = previewRemovedIds
          /\ last'.op = "clearPreview" => previewRemovedIds' = {}]_vars

\* leg 1 (-110) of the list -110, +150 has been excluded at stake 10 with
\* +250 quoted: the outcome is that of the single leg +150 (decimal 5/2,
\* return 25) and there is no pricing scale for a single leg
C27_Witness ==
    /\ last.op = "togglePreviewRemove"
    /\ previewRemovedIds = {1}
    /\ Len(legs) = 2
    /\ Len(allValidLegs) = 2
    /\ Len(previewValidLegs) = 1
    /\ baselineParlay.ok
    /\ baselineParlay.combinedDecimal = Rat(5, 2)
    /\ baselineParlay.potentialReturn = Num(25)
    /\ bookTotalDecimal = Rat(7, 2)
    /\ ~pricingScale.ok


\* C29: slip options are nested, in every state reached by toggling the two
\* boxes and editing legs or book total odds: the key option is on only if
\* the scale option is on; the scale key is shown on the slip only if the
\* pricing scale is shown on the slip; the pricing scale is shown on the slip
\* only if a pricing-scale result exists with a finite adjustmentPct; and a
\* step that unchecks the scale option leaves the key option off.
C29_SlipOptionsNested ==
    /\ [](/\ includeKeyOnSlip => includeScaleOnSlip
          /\ effectiveIncludeKeyOnSlip => effectiveIncludeScaleOnSlip
          /\ slipShowsKey => slipShowsScale
          /\ slipShowsScale =>
                pricingScale.ok /\ isFinite(pricingScale.adjustmentPct))
    /\ [][(includeScaleOnSlip /\ ~includeScaleOnSlip') => ~includeKeyOnSlip']_vars

\* both boxes have been checked for the legs -110, +150 with +250 quoted:
\* the slip shows the pricing scale and its key
C29_Witness ==
    /\ includeScaleOnSlip
    /\ includeKeyOnSlip
    /\ bookTotalDecimal = Rat(7, 2)
    /\ Len(previewValidLegs) = 2
    /\ pricingScale.ok
    /\ slipShowsScale
    /\ slipShowsKey

=============================================================================
